---------------------------- MODULE Spec2Model ----------------------------
(***************************************************************************)
(* A model of the ZFS snapshot assistant: the token validator              *)
(* (utils/common.py), the privilege broker (utils/privilege_manager.py),   *)
(* the snapshot repository and retention engine (core/zfs_core.py) and the *)
(* replication resolver (backup/zfs_backup.py).                            *)
(*                                                                         *)
(* A Python string is a sequence of one-character strings, so that the     *)
(* validator, the '@' split and the concatenations are computed character  *)
(* by character.  One public call is one action: the code is synchronous   *)
(* and blocking, and the outcome of every external process is an input of  *)
(* the action.  The variable op records the last call: its arguments, its  *)
(* result and, in order, the broker calls and external processes it made.  *)
(***************************************************************************)
EXTENDS Integers, Sequences, FiniteSets, TLC

VARIABLES
    now,                  \* time.time(), in seconds
    ticks,                \* number of clock advances so far (bounds the run)
    authTime,             \* PrivilegeManager._auth_cache_time
    sessionActive,        \* PrivilegeManager._session_active
    initialAuthCompleted, \* PrivilegeManager._initial_auth_completed
    isRoot,               \* os.geteuid() == 0
    op,                   \* the last call and what it did
    threads               \* where each thread is inside run_privileged_command

vars == <<now, ticks, authTime, sessionActive, initialAuthCompleted, isRoot, op,
          threads>>

(***************************************************************************)
(* Bounds of the model.                                                    *)
(***************************************************************************)
MaxTokLen == 3   \* longest string given to the validator on its own
MaxTicks  == 2   \* clock advances in one run
MaxBatch  == 3   \* longest command list given to runBatch
MaxSnaps  == 3   \* longest snapshot listing
MaxThreads == 2  \* threads calling the broker at the same time
MaxDatasets == 3 \* longest config["datasets"] given to the loops
MaxWaitTicks == 11 \* clock advances while one call waits for a process
MaxArgLen == 3   \* longest argument of a command written to the script

(***************************************************************************)
(* Characters.  "a", "Z" and "0" stand for the ranges a-z, A-Z and 0-9;    *)
(* "!" stands for any character that is neither allowed nor a shell        *)
(* metacharacter of the deny list; "BACKTICK" is the backquote character,  *)
(* which a string literal cannot hold.                                     *)
(***************************************************************************)
Lower == {"a", "b", "c", "d", "e", "f", "g", "h", "i", "j", "k", "l", "m",
          "n", "o", "p", "q", "r", "s", "t", "u", "v", "w", "x", "y", "z"}

Upper == {"A", "B", "C", "D", "E", "F", "G", "H", "I", "J", "K", "L", "M",
          "N", "O", "P", "Q", "R", "S", "T", "U", "V", "W", "X", "Y", "Z"}

DigitChars == <<"0", "1", "2", "3", "4", "5", "6", "7", "8", "9">>

Digits == {DigitChars[i] : i \in 1..Len(DigitChars)}

AlNum == Lower \cup Upper \cup Digits

\* [A-Za-z0-9._:/+-]
SafeZfsTokenClass == AlNum \cup {".", "_", ":", "/", "+", "-"}

\* [A-Za-z0-9._-]
SafePrefixClass == AlNum \cup {".", "_", "-"}

\* the mutant of the character class: '+' forgotten
SafeZfsTokenClassNoPlus == AlNum \cup {".", "_", ":", "/", "-"}

DISALLOWED_SHELL_CHARS ==
    {" ", "\t", "\r", "\n", "'", "\"", "BACKTICK", ";", "$", "|", "&", "<", ">", "\\"}

OtherChars == {"@", "!"}

\* the characters the validator is tried on: one of each range, every
\* punctuation mark of the allow list, the deny list, and the others
Alphabet ==
    {"a", "Z", "0", ".", "_", ":", "/", "+", "-"}
        \cup DISALLOWED_SHELL_CHARS \cup OtherChars

StringsUpTo(n) == UNION {[1..k -> Alphabet] : k \in 0..n}

AllIn(s, class) == \A i \in 1..Len(s) : s[i] \in class

AnyIn(s, class) == \E i \in 1..Len(s) : s[i] \in class

\* re.match(r"^[class]+$", s): Python's $ also matches before one trailing newline
ReMatchPlus(s, class) ==
    /\ Len(s) > 0
    /\ \/ AllIn(s, class)
       \/ /\ Len(s) >= 2
          /\ s[Len(s)] = "\n"
          /\ AllIn(SubSeq(s, 1, Len(s) - 1), class)

is_safe_zfs_token_NoPlus(value) ==
    IF value = <<>> THEN FALSE
    ELSE IF AnyIn(value, DISALLOWED_SHELL_CHARS) THEN FALSE
    ELSE ReMatchPlus(value, SafeZfsTokenClassNoPlus)

is_safe_zfs_token(value) ==
    IF value = <<>> THEN FALSE
    ELSE IF AnyIn(value, DISALLOWED_SHELL_CHARS) THEN FALSE
    ELSE ReMatchPlus(value, SafeZfsTokenClass)

is_safe_snapshot_prefix(value) ==
    IF value = <<>> THEN FALSE
    ELSE IF AnyIn(value, DISALLOWED_SHELL_CHARS) THEN FALSE
    ELSE ReMatchPlus(value, SafePrefixClass)

(***************************************************************************)
(* The record of a call.                                                   *)
(***************************************************************************)
NoArgs == [none |-> TRUE]

\* pre: the clock, the session and the identity when the call started
OpRec(name, args, ok, msg, events, log) ==
    [name |-> name, args |-> args, ok |-> ok, msg |-> msg,
     events |-> events, log |-> log,
     pre |-> [now |-> now, authTime |-> authTime, active |-> sessionActive,
              root |-> isRoot]]

NoOp == OpRec("none", NoArgs, TRUE, "", <<>>, <<>>)

AuthCacheDuration == 900

\* time.time() of a running system is far past the epoch: at construction
\* the cache stamped 0 is already older than the window
StartTime == AuthCacheDuration + 1

\* the amounts by which the clock advances between two calls
Deltas == {1, AuthCacheDuration - 1, AuthCacheDuration + 1}

\* the threads that share the global privilege_manager
Threads == 1..MaxThreads

\* a thread outside run_privileged_command
ThreadIdle == [pc |-> "idle", res |-> "none", authed |-> FALSE]

NoThreads == [of |-> [t \in Threads |-> ThreadIdle], probes |-> 0, okProbes |-> 0]

\* PrivilegeManager.__init__, before any call
SessionInit ==
    /\ now = StartTime /\ ticks = 0 /\ authTime = 0
    /\ sessionActive = FALSE /\ initialAuthCompleted = FALSE

SessionIdle == SessionInit /\ isRoot = FALSE

SessionUnchanged ==
    UNCHANGED <<now, ticks, authTime, sessionActive, initialAuthCompleted, isRoot,
                threads>>

(***************************************************************************)
(* Words of the command lines.                                             *)
(***************************************************************************)
W_zfs == <<"z", "f", "s">>

W_snapshot == <<"s", "n", "a", "p", "s", "h", "o", "t">>

W_destroy == <<"d", "e", "s", "t", "r", "o", "y">>

W_rollback == <<"r", "o", "l", "l", "b", "a", "c", "k">>

W_clone == <<"c", "l", "o", "n", "e">>

W_send == <<"s", "e", "n", "d">>

W_receive == <<"r", "e", "c", "e", "i", "v", "e">>

W_list == <<"l", "i", "s", "t">>

W_true == <<"t", "r", "u", "e">>

W_pkexec == <<"p", "k", "e", "x", "e", "c">>

W_bash == <<"b", "a", "s", "h">>

Opt_r == <<"-", "r">>

Opt_i == <<"-", "i">>

Opt_F == <<"-", "F">>

(***************************************************************************)
(* External processes.  An event is one broker call or one process, with   *)
(* the command lines it was given and how it ended.                        *)
(*   kind "runPrivileged", "runBatch": a call of the broker (out: ok/fail) *)
(*   kind "probe":   pkexec true, the authentication probe                 *)
(*   kind "pkexec":  pkexec <command>                                      *)
(*   kind "script":  pkexec bash <temporary script>, cmds = its commands   *)
(*   kind "script_cmd": one command executed by the script                 *)
(*   kind "run":     a command run directly (root, or unprivileged)        *)
(***************************************************************************)
Event(kind, cmds, out) == [kind |-> kind, cmds |-> cmds, out |-> out]

\* subprocess.run(check=True, timeout=..): exit 0, exit non-zero
\* (CalledProcessError), TimeoutExpired, any other exception (OSError)
CmdOutcomes == {"ok", "fail", "timeout", "error"}

\* pkexec in front: it may also refuse (dismissed or not authorized: exit
\* 126/127, a CalledProcessError like any other non-zero exit)
ElevOutcomes == CmdOutcomes \cup {"declined"}

AuthOutcomes == {"ok", "declined", "timeout", "error"}

Session == [authTime |-> authTime, active |-> sessionActive,
            initial |-> initialAuthCompleted]

Ret(ok, msg, sess, events) ==
    [ok |-> ok, msg |-> msg, sess |-> sess, events |-> events, log |-> <<>>]

\* the mutant of the cache test: the comparison inverted
is_auth_cached_Inverted(t, sess) == (t - sess.authTime) > AuthCacheDuration

\* the mutant of the cache test: the boundary included
is_auth_cached_Inclusive(t, sess) == (t - sess.authTime) <= AuthCacheDuration

is_auth_cached(t, sess) == (t - sess.authTime) < AuthCacheDuration

\* the mutant of the refresh: a failed probe stamps the cache as well
refresh_auth_cache_StampOnFailure(t, sess, authOut) ==
    LET ev == Event("probe", <<<<W_pkexec, W_true>>>>, authOut) IN
    [ok |-> authOut = "ok",
     sess |-> [authTime |-> t, active |-> authOut = "ok",
               initial |-> sess.initial \/ authOut = "ok"],
     events |-> <<ev>>]

\* the mutant of the refresh: a successful probe stamps the cache but does
\* not mark the session active
refresh_auth_cache_ForgetActive(t, sess, authOut) ==
    LET ev == Event("probe", <<<<W_pkexec, W_true>>>>, authOut) IN
    IF authOut = "ok"
    THEN [ok |-> TRUE,
          sess |-> [authTime |-> t, active |-> sess.active, initial |-> TRUE],
          events |-> <<ev>>]
    ELSE [ok |-> FALSE,
          sess |-> [sess EXCEPT !.active = FALSE],
          events |-> <<ev>>]

refresh_auth_cache(t, sess, authOut) ==
    LET ev == Event("probe", <<<<W_pkexec, W_true>>>>, authOut) IN
    IF authOut = "ok"
    THEN [ok |-> TRUE,
          sess |-> [authTime |-> t, active |-> TRUE, initial |-> TRUE],
          events |-> <<ev>>]
    ELSE [ok |-> FALSE,
          sess |-> [sess EXCEPT !.active = FALSE],
          events |-> <<ev>>]

\* the except clauses of run_privileged_command
CommandMsg(out) ==
    CASE out = "ok" -> "stdout"
      [] out \in {"fail", "declined"} -> "Command failed"
      [] out = "timeout" -> "Command timed out"
      [] OTHER -> "Unexpected error"

Called(kind, cmds, r) ==
    [r EXCEPT !.events =
        <<Event(kind, cmds, IF r.ok THEN "ok" ELSE "fail")>> \o r.events]

\* the mutant of the root test: the cache is checked before the identity
run_privileged_command_ProbeAsRoot(t, root, sess, command, authOut, cmdOut) ==
    Called("runPrivileged", <<command>>,
        LET cached == is_auth_cached(t, sess)
            r == IF cached THEN [ok |-> TRUE, sess |-> sess, events |-> <<>>]
                 ELSE refresh_auth_cache(t, sess, authOut)
        IN  IF ~r.ok
            THEN Ret(FALSE, "Failed to obtain administrative privileges",
                     r.sess, r.events)
            ELSE Ret(cmdOut = "ok", CommandMsg(cmdOut), r.sess,
                     r.events \o <<Event(IF root THEN "run" ELSE "pkexec",
                                         <<command>>, cmdOut)>>))

\* the mutant of the single command: a command that succeeded under a valid
\* cache stamps the cache again (a sliding window)
run_privileged_command_Sliding(t, root, sess, command, authOut, cmdOut) ==
    Called("runPrivileged", <<command>>,
        IF root
        THEN Ret(cmdOut = "ok", CommandMsg(cmdOut), sess,
                 <<Event("run", <<command>>, cmdOut)>>)
        ELSE
            LET cached == is_auth_cached(t, sess)
                r == IF cached THEN [ok |-> TRUE, sess |-> sess, events |-> <<>>]
                     ELSE refresh_auth_cache(t, sess, authOut)
            IN  IF ~r.ok
                THEN Ret(FALSE, "Failed to obtain administrative privileges",
                         r.sess, r.events)
                ELSE Ret(cmdOut = "ok", CommandMsg(cmdOut),
                         IF cmdOut = "ok" THEN [r.sess EXCEPT !.authTime = t]
                         ELSE r.sess,
                         r.events \o <<Event("pkexec", <<command>>, cmdOut)>>))

run_privileged_command(t, root, sess, command, authOut, cmdOut) ==
    Called("runPrivileged", <<command>>,
        IF root
        THEN Ret(cmdOut = "ok", CommandMsg(cmdOut), sess,
                 <<Event("run", <<command>>, cmdOut)>>)
        ELSE
            LET cached == is_auth_cached(t, sess)
                r == IF cached THEN [ok |-> TRUE, sess |-> sess, events |-> <<>>]
                     ELSE refresh_auth_cache(t, sess, authOut)
            IN  IF ~r.ok
                THEN Ret(FALSE, "Failed to obtain administrative privileges",
                         r.sess, r.events)
                ELSE Ret(cmdOut = "ok", CommandMsg(cmdOut), r.sess,
                         r.events \o <<Event("pkexec", <<command>>, cmdOut)>>))

\* index of the first command that does not exit with status zero, or n+1
FirstNotOk(outs, n) ==
    IF \E i \in 1..n : outs[i] # "ok"
    THEN CHOOSE i \in 1..n : outs[i] # "ok" /\ \A j \in 1..(i - 1) : outs[j] = "ok"
    ELSE n + 1

Min(a, b) == IF a < b THEN a ELSE b

\* the except clauses of run_batch_privileged_commands
BatchMsg(out) ==
    CASE out = "ok" -> "stdout"
      [] out \in {"fail", "declined"} -> "Batch execution failed"
      [] out = "timeout" -> "Batch execution timed out"
      [] OTHER -> "Unexpected error in batch execution"

\* the mutant of the root loop: a failing command does not stop the batch
RootBatch_NoFailFast(sess, commands, outs) ==
    LET n == Len(commands)
        k == FirstNotOk(outs, n)
    IN  Ret(k > n,
            IF k > n THEN "stdout" ELSE "Command failed",
            sess,
            [i \in 1..n |-> Event("run", <<commands[i]>>, outs[i])])

\* run_batch_privileged_commands as root: the loop over subprocess.run
RootBatch(sess, commands, outs) ==
    LET n == Len(commands)
        k == FirstNotOk(outs, n)
        ran == Min(k, n)
    IN  Ret(k > n,
            IF k > n THEN "stdout"
            ELSE IF outs[k] = "fail" THEN "Command failed"
            ELSE BatchMsg(outs[k]),
            sess,
            [i \in 1..ran |-> Event("run", <<commands[i]>>, outs[i])])

\* pkexec bash <script>: the script runs its commands under set -e; the whole
\* run is one subprocess.run with a timeout of 300 s
\* (its commands are taken to run as submitted, which the script does when
\* no argument holds a single quote: see script_content and Bash below)
ScriptBatch(sess, commands, elevOut, outs) ==
    LET n == Len(commands)
        k == FirstNotOk(outs, n)
        ran == Min(k, n)
        out == IF elevOut # "ok" THEN elevOut
               ELSE IF k > n THEN "ok"
               ELSE IF outs[k] = "timeout" THEN "timeout" ELSE "fail"
        inside == IF elevOut = "ok"
                  THEN [i \in 1..ran |->
                           Event("script_cmd", <<commands[i]>>,
                                 IF outs[i] = "ok" THEN "ok"
                                 ELSE IF outs[i] = "timeout" THEN "timeout" ELSE "fail")]
                  ELSE <<>>
    IN  Ret(out = "ok", BatchMsg(out), sess,
            <<Event("script", commands, out)>> \o inside)

run_batch_privileged_commands(t, root, sess, commands, authOut, elevOut, outs) ==
    IF commands = <<>>
    THEN Ret(TRUE, "No commands to execute", sess, <<>>)
    ELSE Called("runBatch", commands,
        IF root
        THEN RootBatch(sess, commands, outs)
        ELSE
            LET cached == is_auth_cached(t, sess)
                r == IF cached THEN [ok |-> TRUE, sess |-> sess, events |-> <<>>]
                     ELSE refresh_auth_cache(t, sess, authOut)
            IN  IF ~r.ok
                THEN Ret(FALSE, "Failed to obtain administrative privileges",
                         r.sess, r.events)
                ELSE LET b == ScriptBatch(r.sess, commands, elevOut, outs)
                     IN  [b EXCEPT !.events = r.events \o b.events])

\* the session fields after a call that returned r
SetSession(r) ==
    /\ authTime' = r.sess.authTime
    /\ sessionActive' = r.sess.active
    /\ initialAuthCompleted' = r.sess.initial
    /\ UNCHANGED <<now, ticks, isRoot, threads>>

Done(name, args, r) == op' = OpRec(name, args, r.ok, r.msg, r.events, r.log)

(***************************************************************************)
(* Snapshots and names.                                                    *)
(***************************************************************************)
At == <<"@">>

Dash == <<"-">>

HasAt(s) == AnyIn(s, {"@"})

\* str.split('@', 1): the parts before and after the first '@'
SplitAt(s) ==
    LET i == CHOOSE k \in 1..Len(s) :
                 s[k] = "@" /\ \A j \in 1..(k - 1) : s[j] # "@"
    IN  <<SubSeq(s, 1, i - 1), SubSeq(s, i + 1, Len(s))>>

\* a snapshot as get_snapshots builds it; creation_date is a datetime
\* (parsed, created in seconds) or the raw string of the listing (~parsed)
Snapshot(dataset, name, parsed, created) ==
    [dataset |-> dataset, name |-> name, parsed |-> parsed, created |-> created]

\* ZFSSnapshot.full_name: dataset + "@" + name
full_name(snap) == snap.dataset \o At \o snap.name

RECURSIVE Decimal(_)
Decimal(n) ==
    IF n < 10 THEN <<DigitChars[n + 1]>>
    ELSE Decimal(n \div 10) \o <<DigitChars[(n % 10) + 1]>>

SecondsPerDay == 24 * 60 * 60

\* get_timestamp: strftime("%Y%m%d-%H%M"), digits around one '-': here the
\* day number and the minute of the day
get_timestamp(t) ==
    Decimal(t \div SecondsPerDay) \o Dash \o Decimal((t % SecondsPerDay) \div 60)

W_zfs_assistant ==
    <<"z", "f", "s", "-", "a", "s", "s", "i", "s", "t", "a", "n", "t">>

W_pkgop == <<"p", "k", "g", "o", "p">>

\* logger.log_snapshot_operation(operation, dataset, name, success)
LogEntry(operation, dataset, name, success) ==
    [operation |-> operation, dataset |-> dataset, name |-> name,
     success |-> success]

Fail(msg, sess) == Ret(FALSE, msg, sess, <<>>)

(***************************************************************************)
(* ZFSCore: create, delete, rollback, clone.                               *)
(***************************************************************************)
\* the mutant: the command is issued before the tokens are validated
create_snapshot_ValidateLate(t, root, sess, dataset, name, authOut, cmdOut) ==
    LET nm == IF name = <<>> THEN W_zfs_assistant \o Dash \o get_timestamp(t)
              ELSE name
        r == run_privileged_command(t, root, sess,
                 <<W_zfs, W_snapshot, dataset \o At \o nm>>, authOut, cmdOut)
    IN  IF ~is_safe_zfs_token(dataset)
        THEN [r EXCEPT !.ok = FALSE, !.msg = "Invalid dataset name"]
        ELSE IF name # <<>> /\ ~is_safe_zfs_token(name)
        THEN [r EXCEPT !.ok = FALSE, !.msg = "Invalid snapshot name"]
        ELSE r

create_snapshot(t, root, sess, dataset, name, authOut, cmdOut) ==
    IF ~is_safe_zfs_token(dataset) THEN Fail("Invalid dataset name", sess)
    ELSE IF name # <<>> /\ ~is_safe_zfs_token(name)
    THEN Fail("Invalid snapshot name", sess)
    ELSE
        LET nm == IF name = <<>>
                  THEN W_zfs_assistant \o Dash \o get_timestamp(t)
                  ELSE name
            full == dataset \o At \o nm
            r == run_privileged_command(t, root, sess,
                     <<W_zfs, W_snapshot, full>>, authOut, cmdOut)
        IN  IF r.ok
            THEN [r EXCEPT !.msg = "Created snapshot",
                           !.log = <<LogEntry("create", dataset, nm, TRUE)>>]
            ELSE r

\* the shared tail of delete, rollback and clone
SnapshotCommand(t, root, sess, operation, full, cmd, okMsg, authOut, cmdOut) ==
    LET parts == SplitAt(full)
        r == run_privileged_command(t, root, sess, cmd, authOut, cmdOut)
    IN  IF r.ok
        THEN [r EXCEPT !.msg = okMsg,
                       !.log = <<LogEntry(operation, parts[1], parts[2], TRUE)>>]
        ELSE r

delete_snapshot(t, root, sess, full, authOut, cmdOut) ==
    IF ~is_safe_zfs_token(full) \/ ~HasAt(full)
    THEN Fail("Invalid snapshot identifier", sess)
    ELSE SnapshotCommand(t, root, sess, "delete", full,
             <<W_zfs, W_destroy, full>>, "Deleted snapshot", authOut, cmdOut)

rollback_snapshot(t, root, sess, full, force, authOut, cmdOut) ==
    IF ~is_safe_zfs_token(full) \/ ~HasAt(full)
    THEN Fail("Invalid snapshot identifier", sess)
    ELSE SnapshotCommand(t, root, sess, "rollback", full,
             <<W_zfs, W_rollback>> \o (IF force THEN <<Opt_r>> ELSE <<>>)
                 \o <<full>>,
             "Rolled back to snapshot", authOut, cmdOut)

clone_snapshot(t, root, sess, full, target, authOut, cmdOut) ==
    IF ~is_safe_zfs_token(full) \/ ~HasAt(full)
    THEN Fail("Invalid snapshot identifier", sess)
    ELSE IF ~is_safe_zfs_token(target)
    THEN Fail("Invalid target dataset name", sess)
    ELSE SnapshotCommand(t, root, sess, "clone", full,
             <<W_zfs, W_clone, full, target>>, "Cloned snapshot",
             authOut, cmdOut)

(***************************************************************************)
(* ZFSCore: the batched creations.                                         *)
(***************************************************************************)
SnapshotCommands(datasets, name) ==
    [i \in 1..Len(datasets) |-> <<W_zfs, W_snapshot, datasets[i] \o At \o name>>]

\* one log entry per dataset, all successes or all failures
BatchLog(datasets, name, success) ==
    [i \in 1..Len(datasets) |-> LogEntry("create", datasets[i], name, success)]

create_batch_snapshots(t, root, sess, datasets, name, authOut, elevOut, outs) ==
    IF datasets = <<>>
    THEN Fail("No datasets provided for batch snapshot creation", sess)
    ELSE
        LET r == run_batch_privileged_commands(t, root, sess,
                     SnapshotCommands(datasets, name), authOut, elevOut, outs)
        IN  [r EXCEPT !.msg = IF r.ok THEN "Successfully created snapshots in batch"
                              ELSE "Batch snapshot creation failed",
                      !.log = BatchLog(datasets, name, r.ok)]

\* config.get("datasets"), config.get("prefix"); the interval is the argument
create_scheduled_snapshot(t, root, sess, datasets, prefix, interval, authOut, elevOut, outs) ==
    IF datasets = <<>> THEN Ret(TRUE, "No datasets configured", sess, <<>>)
    ELSE IF ~is_safe_snapshot_prefix(prefix)
    THEN Fail("Invalid snapshot prefix in config", sess)
    ELSE IF \E i \in 1..Len(datasets) : ~is_safe_zfs_token(datasets[i])
    THEN Fail("Invalid dataset in config", sess)
    ELSE
        LET name == prefix \o Dash \o interval \o Dash \o get_timestamp(t)
            r == run_batch_privileged_commands(t, root, sess,
                     SnapshotCommands(datasets, name), authOut, elevOut, outs)
        IN  [r EXCEPT !.msg = IF r.ok THEN "Successfully created snapshots"
                              ELSE "Batch snapshot creation failed",
                      !.log = BatchLog(datasets, name, r.ok)]

\* zfs_assistant.create_pre_pacman_snapshot: its own PrivilegeManager
FreshSession == [authTime |-> 0, active |-> FALSE, initial |-> FALSE]

create_pre_pacman_snapshot(t, root, datasets, prefix, authOut, elevOut, outs) ==
    IF datasets = <<>> THEN Fail("No datasets configured for snapshots", FreshSession)
    ELSE
        LET name == prefix \o Dash \o W_pkgop \o Dash \o get_timestamp(t)
        IN  run_batch_privileged_commands(t, root, FreshSession,
                SnapshotCommands(datasets, name), authOut, elevOut, outs)

(***************************************************************************)
(* ZFSCore.get_snapshots: the unprivileged listing.  rows is what the      *)
(* listing holds; a failing listing gives the empty list.                  *)
(***************************************************************************)
ListCommand(dataset) == <<W_zfs, W_list, dataset>>

get_snapshots(dataset, listOut, rows) ==
    [snapshots |-> IF listOut = "ok" THEN rows ELSE <<>>,
     events |-> <<Event("run", <<ListCommand(dataset)>>, listOut)>>]

\* datetime.datetime.min, the sort key of a creation time that did not
\* parse: before every time of the model
DatetimeMin == -1

\* the mutant of the sort key: a creation time that did not parse sorts as
\* the newest
SortKey_UnparsedFirst(snap) ==
    IF snap.parsed THEN snap.created ELSE 1000 * SecondsPerDay

SortKey(snap) == IF snap.parsed THEN snap.created ELSE DatetimeMin

\* sorted(snapshots, key=SortKey, reverse=True): stable, newest first
RECURSIVE InsertDesc(_, _)
InsertDesc(sorted, snap) ==
    IF sorted = <<>> THEN <<snap>>
    ELSE IF SortKey(Head(sorted)) >= SortKey(snap)
    THEN <<Head(sorted)>> \o InsertDesc(Tail(sorted), snap)
    ELSE <<snap>> \o sorted

RECURSIVE SortedNewestFirst(_)
SortedNewestFirst(snapshots) ==
    IF snapshots = <<>> THEN <<>>
    ELSE InsertDesc(SortedNewestFirst(SubSeq(snapshots, 1, Len(snapshots) - 1)),
                    snapshots[Len(snapshots)])

\* (datetime.now() - creation_date).days
AgeDays(t, snap) == (t - snap.created) \div SecondsPerDay

(***************************************************************************)
(* ZFSCore.cleanup_snapshots: retention on one dataset.                    *)
(***************************************************************************)
\* the mutant: count and age combined by AND
should_delete_And(t, i, snap, keepCount, maxAgeDays) ==
    /\ i - 1 >= keepCount
    /\ snap.parsed /\ AgeDays(t, snap) > maxAgeDays

\* the loop body; i is the one-based position, the code's rank is i - 1
should_delete(t, i, snap, keepCount, maxAgeDays) ==
    \/ i - 1 >= keepCount
    \/ snap.parsed /\ AgeDays(t, snap) > maxAgeDays

RECURSIVE Marked(_, _, _, _, _)
Marked(t, sorted, i, keepCount, maxAgeDays) ==
    IF i > Len(sorted) THEN <<>>
    ELSE (IF should_delete(t, i, sorted[i], keepCount, maxAgeDays)
          THEN <<sorted[i]>> ELSE <<>>)
         \o Marked(t, sorted, i + 1, keepCount, maxAgeDays)

DestroyCommands(snaps) ==
    [i \in 1..Len(snaps) |-> <<W_zfs, W_destroy, full_name(snaps[i])>>]

\* the mutant: a failed batch is logged as deleted
DeleteLog_AlwaysDeleted(dataset, snaps, success) ==
    [i \in 1..Len(snaps) |-> LogEntry("delete", dataset, snaps[i].name, TRUE)]

DeleteLog(dataset, snaps, success) ==
    [i \in 1..Len(snaps) |-> LogEntry("delete", dataset, snaps[i].name, success)]

\* the mutant: one runBatch call per marked snapshot
DeleteBatch_OneByOne(t, root, sess, snaps, authOut, elevOut, outs) ==
    LET first == run_batch_privileged_commands(t, root, sess,
                     DestroyCommands(SubSeq(snaps, 1, 1)), authOut, elevOut, outs)
        rest == run_batch_privileged_commands(t, root, first.sess,
                     DestroyCommands(Tail(snaps)), authOut, elevOut, Tail(outs))
    IN  IF Len(snaps) = 1 THEN first
        ELSE [rest EXCEPT !.ok = first.ok /\ rest.ok,
                          !.events = first.events \o rest.events]

DeleteBatch(t, root, sess, snaps, authOut, elevOut, outs) ==
    run_batch_privileged_commands(t, root, sess, DestroyCommands(snaps),
                                  authOut, elevOut, outs)

cleanup_snapshots(t, root, sess, dataset, keepCount, maxAgeDays, listOut, rows, authOut, elevOut, outs) ==
    LET listing == get_snapshots(dataset, listOut, rows)
        sorted == SortedNewestFirst(listing.snapshots)
        toDelete == Marked(t, sorted, 1, keepCount, maxAgeDays)
    IN  IF listing.snapshots = <<>>
        THEN Ret(TRUE, "No snapshots found", sess, listing.events)
        ELSE IF toDelete = <<>>
        THEN Ret(TRUE, "No snapshots to clean up", sess, listing.events)
        ELSE
            LET r == DeleteBatch(t, root, sess, toDelete, authOut, elevOut, outs)
            IN  [r EXCEPT !.msg = IF r.ok THEN "Cleanup completed"
                                  ELSE "Cleanup failed: batch deletion failed",
                          !.events = listing.events \o r.events,
                          !.log = DeleteLog(dataset, toDelete, r.ok)]

(***************************************************************************)
(* ZFSBackup: send_snapshot, get_latest_common_snapshot, perform_backup.   *)
(***************************************************************************)
\* Popen of the send and of the receive process: exit 0, exit non-zero, or
\* Popen itself raising
PipeOutcomes == {"ok", "fail", "error"}

send_snapshot(t, root, sess, full, pool, incremental, authOut, cmdOut, sendOut, recvOut) ==
    IF ~is_safe_zfs_token(full) \/ ~HasAt(full)
    THEN Fail("Invalid snapshot identifier", sess)
    ELSE IF ~is_safe_zfs_token(pool)
    THEN Fail("Invalid target pool name", sess)
    ELSE IF incremental # <<>> /\ ~is_safe_zfs_token(incremental)
    THEN Fail("Invalid incremental snapshot identifier", sess)
    ELSE
        LET parts == SplitAt(full)
            sendCmd == IF incremental # <<>>
                       THEN <<W_zfs, W_send, Opt_i, incremental, full>>
                       ELSE <<W_zfs, W_send, full>>
            recvCmd == <<W_zfs, W_receive, Opt_F, pool>>
            auth == run_privileged_command(t, root, sess, <<W_true>>,
                                           authOut, cmdOut)
            sendEv == Event("popen", <<sendCmd>>, sendOut)
            recvEv == Event("popen", <<recvCmd>>, recvOut)
        IN  IF ~auth.ok
            THEN [auth EXCEPT !.msg =
                     "Failed to obtain administrative privileges for ZFS send/receive operation"]
            ELSE IF sendOut = "error"
            THEN Ret(FALSE, "Error executing send/receive commands", auth.sess,
                     auth.events \o <<sendEv>>)
            ELSE IF recvOut = "error"
            THEN Ret(FALSE, "Error executing send/receive commands", auth.sess,
                     auth.events \o <<sendEv, recvEv>>)
            ELSE IF sendOut # "ok"
            THEN Ret(FALSE, "Error in send operation", auth.sess,
                     auth.events \o <<sendEv, recvEv>>)
            ELSE IF recvOut # "ok"
            THEN Ret(FALSE, "Error in receive operation", auth.sess,
                     auth.events \o <<sendEv, recvEv>>)
            ELSE [Ret(TRUE, "Successfully sent snapshot", auth.sess,
                      auth.events \o <<sendEv, recvEv>>)
                    EXCEPT !.log = <<LogEntry(
                        IF incremental # <<>> THEN "incremental" ELSE "full",
                        parts[1], parts[2], TRUE)>>]

Names(snaps) == {snaps[i].name : i \in 1..Len(snaps)}

\* {snapshot.name: snapshot for snapshot in snapshots}: the last one wins
ByName(snaps, name) ==
    snaps[CHOOSE i \in 1..Len(snaps) :
             snaps[i].name = name /\ \A j \in (i + 1)..Len(snaps) : snaps[j].name # name]

\* get_latest_common_snapshot: the full names the loop over the set of
\* common names can end with (the set's iteration order decides ties), or
\* <<>> for None
\* the mutant: a creation time that did not parse counts as datetime.min
\* instead of excluding the snapshot
latest_common_snapshot_KeepUnparsed(source, target) ==
    LET common == Names(source) \cap Names(target)
        latest == {n \in common : \A m \in common :
                      SortKey(ByName(source, m)) <= SortKey(ByName(source, n))}
    IN  IF latest = {} THEN {<<>>}
        ELSE {full_name(ByName(source, n)) : n \in latest}

latest_common_snapshot(source, target) ==
    LET common == Names(source) \cap Names(target)
        dated == {n \in common : ByName(source, n).parsed}
        latest == {n \in dated : \A m \in dated :
                      ByName(source, m).created <= ByName(source, n).created}
    IN  IF latest = {} THEN {<<>>}
        ELSE {full_name(ByName(source, n)) : n \in latest}

\* the mutant: the newest snapshot is sent even when it is the common one
perform_backup_AlwaysSend(t, root, sess, hasCore, dataset, pool, o, common) ==
    IF ~hasCore
    THEN Fail("Backup module is not initialized with ZFS core dependency", sess)
    ELSE IF ~is_safe_zfs_token(dataset) THEN Fail("Invalid source dataset name", sess)
    ELSE IF ~is_safe_zfs_token(pool) THEN Fail("Invalid target pool name", sess)
    ELSE
        LET probe == Event("run", <<ListCommand(pool)>>, o.probe)
            first == get_snapshots(dataset, o.list1, o.source)
            sorted == SortedNewestFirst(first.snapshots)
            src2 == get_snapshots(dataset, o.list2, o.source)
            tgt == get_snapshots(pool, o.list3, o.target)
            before == <<probe>> \o first.events \o src2.events \o tgt.events
        IN  IF o.probe = "fail"
            THEN Ret(FALSE, "Target pool does not exist or is not accessible",
                     sess, <<probe>>)
            ELSE IF o.probe # "ok"
            THEN Ret(FALSE, "Error performing backup", sess, <<probe>>)
            ELSE IF first.snapshots = <<>>
            THEN Ret(FALSE, "No snapshots found for dataset", sess,
                     <<probe>> \o first.events)
            ELSE
                LET r == send_snapshot(t, root, sess, full_name(sorted[1]), pool,
                             common, o.auth, o.cmd, o.send, o.recv)
                IN  [r EXCEPT !.events = before \o r.events]

\* the mutant: the source is listed although the target pool is unreachable
perform_backup_ListFirst(t, root, sess, hasCore, dataset, pool, o, common) ==
    IF ~hasCore
    THEN Fail("Backup module is not initialized with ZFS core dependency", sess)
    ELSE IF ~is_safe_zfs_token(dataset) THEN Fail("Invalid source dataset name", sess)
    ELSE IF ~is_safe_zfs_token(pool) THEN Fail("Invalid target pool name", sess)
    ELSE
        LET probe == Event("run", <<ListCommand(pool)>>, o.probe)
            first == get_snapshots(dataset, o.list1, o.source)
            sorted == SortedNewestFirst(first.snapshots)
            src2 == get_snapshots(dataset, o.list2, o.source)
            tgt == get_snapshots(pool, o.list3, o.target)
            before == first.events \o <<probe>> \o src2.events \o tgt.events
        IN  IF first.snapshots = <<>>
            THEN Ret(FALSE, "No snapshots found for dataset", sess, first.events)
            ELSE IF o.probe = "fail"
            THEN Ret(FALSE, "Target pool does not exist or is not accessible",
                     sess, first.events \o <<probe>>)
            ELSE IF o.probe # "ok"
            THEN Ret(FALSE, "Error performing backup", sess,
                     first.events \o <<probe>>)
            ELSE IF common # <<>> /\ common = full_name(sorted[1])
            THEN Ret(TRUE, "Latest snapshot already exists in target pool",
                     sess, before)
            ELSE
                LET r == send_snapshot(t, root, sess, full_name(sorted[1]), pool,
                             common, o.auth, o.cmd, o.send, o.recv)
                IN  [r EXCEPT !.events = before \o r.events]

\* o: the outcomes of the processes of one perform_backup, and the rows of
\* the listings of the source dataset and of the target pool
perform_backup(t, root, sess, hasCore, dataset, pool, o, common) ==
    IF ~hasCore
    THEN Fail("Backup module is not initialized with ZFS core dependency", sess)
    ELSE IF ~is_safe_zfs_token(dataset) THEN Fail("Invalid source dataset name", sess)
    ELSE IF ~is_safe_zfs_token(pool) THEN Fail("Invalid target pool name", sess)
    ELSE
        LET probe == Event("run", <<ListCommand(pool)>>, o.probe)
            first == get_snapshots(dataset, o.list1, o.source)
            sorted == SortedNewestFirst(first.snapshots)
            src2 == get_snapshots(dataset, o.list2, o.source)
            tgt == get_snapshots(pool, o.list3, o.target)
            before == <<probe>> \o first.events \o src2.events \o tgt.events
        IN  IF o.probe = "fail"
            THEN Ret(FALSE, "Target pool does not exist or is not accessible",
                     sess, <<probe>>)
            ELSE IF o.probe # "ok"
            THEN Ret(FALSE, "Error performing backup", sess, <<probe>>)
            ELSE IF first.snapshots = <<>>
            THEN Ret(FALSE, "No snapshots found for dataset", sess,
                     <<probe>> \o first.events)
            ELSE IF common # <<>> /\ common = full_name(sorted[1])
            THEN Ret(TRUE, "Latest snapshot already exists in target pool",
                     sess, before)
            ELSE
                LET r == send_snapshot(t, root, sess, full_name(sorted[1]), pool,
                             common, o.auth, o.cmd, o.send, o.recv)
                IN  [r EXCEPT !.events = before \o r.events]

\* what get_latest_common_snapshot can return inside perform_backup
BackupCommonChoices(dataset, pool, o) ==
    latest_common_snapshot(get_snapshots(dataset, o.list2, o.source).snapshots,
                           get_snapshots(pool, o.list3, o.target).snapshots)

(***************************************************************************)
(* The calls of a single-threaded caller, and the clock.                   *)
(***************************************************************************)
Tick ==
    /\ ticks < MaxTicks
    /\ \E d \in Deltas : now' = now + d
    /\ ticks' = ticks + 1
    /\ op' = OpRec("tick", NoArgs, TRUE, "", <<>>, <<>>)
    /\ UNCHANGED <<authTime, sessionActive, initialAuthCompleted, isRoot, threads>>

\* PrivilegeManager.is_authenticated
is_authenticated(t, sess) == sess.active /\ is_auth_cached(t, sess)

\* PrivilegeManager.get_session_remaining_time: int(max(0, duration - elapsed))
get_session_remaining_time(t, sess) ==
    IF ~sess.active THEN 0
    ELSE LET elapsed == t - sess.authTime
         IN  IF AuthCacheDuration - elapsed > 0 THEN AuthCacheDuration - elapsed
             ELSE 0

\* the mutant of cleanup_session: the time of the authentication is kept
CleanupSession_KeepStamp ==
    /\ sessionActive' = FALSE
    /\ op' = OpRec("cleanup_session", NoArgs, TRUE, "", <<>>, <<>>)
    /\ UNCHANGED <<now, ticks, authTime, initialAuthCompleted, isRoot, threads>>

\* PrivilegeManager.cleanup_session
CleanupSession ==
    /\ sessionActive' = FALSE
    /\ authTime' = 0
    /\ op' = OpRec("cleanup_session", NoArgs, TRUE, "", <<>>, <<>>)
    /\ UNCHANGED <<now, ticks, initialAuthCompleted, isRoot, threads>>

\* The outcome of a process that is never started is no input: the probe
\* runs only for a caller that is not root and whose cache is not valid
AuthChoices(all) ==
    IF ~isRoot /\ ~is_auth_cached(now, Session) THEN all ELSE {"ok"}

After(authOut, all) == IF authOut = "ok" THEN all ELSE {"ok"}

\* the i-th command of a batch given to the broker directly
BatchCommand(i) ==
    <<W_zfs, W_destroy, <<"t", "k">> \o At \o <<"s">> \o Decimal(i)>>

BatchOf(n) == [i \in 1..n |-> BatchCommand(i)]

RunPrivileged ==
    \E command \in {<<W_true>>, BatchCommand(1)},
       authOut \in AuthChoices(AuthOutcomes) :
        \E cmdOut \in After(authOut, IF isRoot THEN CmdOutcomes ELSE ElevOutcomes) :
            LET r == run_privileged_command(now, isRoot, Session, command,
                                            authOut, cmdOut)
            IN  SetSession(r) /\ Done("runPrivileged", [command |-> command], r)

RunBatch ==
    \E n \in 0..MaxBatch, authOut \in AuthChoices(AuthOutcomes) :
        \E elevOut \in After(authOut, IF isRoot THEN {"ok"} ELSE AuthOutcomes) :
            \E outs \in [1..n -> IF elevOut # "ok" THEN {"ok"}
                                  ELSE IF isRoot THEN CmdOutcomes
                                  ELSE {"ok", "fail", "timeout"}] :
                LET r == run_batch_privileged_commands(now, isRoot, Session,
                             BatchOf(n), authOut, elevOut, outs)
                IN  SetSession(r)
                    /\ Done("runBatch", [commands |-> BatchOf(n)], r)

Init ==
    /\ SessionInit
    /\ isRoot \in BOOLEAN
    /\ op = NoOp
    /\ threads = NoThreads

Next ==
    \/ Tick
    \/ CleanupSession
    \/ RunPrivileged
    \/ RunBatch

\* the broker, used by one thread
Spec == Init /\ [][Next]_vars

(***************************************************************************)
(* The snapshot repository and the replication resolver.                   *)
(***************************************************************************)
\* sample tokens: valid names, names with a shell metacharacter, the empty one
D_tank == <<"t", "k">>

D_home == <<"t", "k", "/", "h">>

D_inject == <<"t", "k", ";", "x">>

N_snap == <<"s", "1">>

N_quote == <<"s", "'", "1">>

P_backup == <<"b", "k">>

P_pipe == <<"b", "|">>

Empty == <<>>

DatasetSamples == {D_tank, D_inject, Empty}

NameSamples == {N_snap, N_quote, Empty}

PoolSamples == {P_backup, P_pipe}

FullNameSamples ==
    {D_tank \o At \o N_snap, D_inject \o At \o N_snap, D_tank \o At \o N_quote,
     D_tank, Empty}

CoreAuth == {"ok", "declined"}

CoreCmd == {"ok", "fail"}

CreateSnapshot ==
    \E dataset \in DatasetSamples, name \in NameSamples,
       authOut \in AuthChoices(CoreAuth) :
        \E cmdOut \in After(authOut, CoreCmd) :
            LET r == create_snapshot(now, isRoot, Session, dataset, name,
                                     authOut, cmdOut)
            IN  SetSession(r)
                /\ Done("create_snapshot", [dataset |-> dataset, name |-> name], r)

DeleteSnapshot ==
    \E full \in FullNameSamples, authOut \in AuthChoices(CoreAuth) :
        \E cmdOut \in After(authOut, CoreCmd) :
            LET r == delete_snapshot(now, isRoot, Session, full, authOut, cmdOut)
            IN  SetSession(r) /\ Done("delete_snapshot", [full |-> full], r)

RollbackSnapshot ==
    \E full \in FullNameSamples, force \in BOOLEAN,
       authOut \in AuthChoices(CoreAuth) :
        \E cmdOut \in After(authOut, CoreCmd) :
            LET r == rollback_snapshot(now, isRoot, Session, full, force,
                                       authOut, cmdOut)
            IN  SetSession(r)
                /\ Done("rollback_snapshot", [full |-> full, force |-> force], r)

CloneSnapshot ==
    \E full \in FullNameSamples, target \in DatasetSamples,
       authOut \in AuthChoices(CoreAuth) :
        \E cmdOut \in After(authOut, CoreCmd) :
            LET r == clone_snapshot(now, isRoot, Session, full, target,
                                    authOut, cmdOut)
            IN  SetSession(r)
                /\ Done("clone_snapshot", [full |-> full, target |-> target], r)

\* how the two ends of the pipeline can end
PipePairs == {<<"ok", "ok">>, <<"fail", "ok">>, <<"ok", "fail">>, <<"error", "ok">>}

SendSnapshot ==
    \E full \in FullNameSamples, pool \in PoolSamples,
       incremental \in {Empty, D_tank \o At \o N_snap},
       authOut \in AuthChoices(CoreAuth) :
        \E cmdOut \in After(authOut, CoreCmd) :
            \E pipe \in After(cmdOut, PipePairs) :
                LET r == send_snapshot(now, isRoot, Session, full, pool,
                             incremental, authOut, cmdOut,
                             IF pipe = "ok" THEN "ok" ELSE pipe[1],
                             IF pipe = "ok" THEN "ok" ELSE pipe[2])
                IN  SetSession(r)
                    /\ Done("send_snapshot",
                            [full |-> full, pool |-> pool,
                             incremental |-> incremental], r)

\* the listings perform_backup is tried on: zero to two source snapshots,
\* one of them or the only one with a creation time that did not parse; the
\* target pool holding none, the older, the newer or both
SourceSamples(dataset) ==
    {<<>>,
     <<Snapshot(dataset, <<"s", "2">>, FALSE, 0)>>,
     <<Snapshot(dataset, <<"s", "1">>, TRUE, 10)>>,
     <<Snapshot(dataset, <<"s", "1">>, TRUE, 10),
       Snapshot(dataset, <<"s", "2">>, TRUE, 20)>>,
     <<Snapshot(dataset, <<"s", "1">>, TRUE, 10),
       Snapshot(dataset, <<"s", "2">>, FALSE, 0)>>}

TargetSamples(pool) ==
    {<<>>,
     <<Snapshot(pool, <<"s", "2">>, TRUE, 20)>>,
     <<Snapshot(pool, <<"s", "1">>, TRUE, 10)>>,
     <<Snapshot(pool, <<"s", "1">>, TRUE, 10),
       Snapshot(pool, <<"s", "2">>, TRUE, 20)>>}

BackupOutcome(probe, list1, source, list3, target, auth, pipe) ==
    [probe |-> probe, list1 |-> list1, list2 |-> list1, list3 |-> list3,
     source |-> source, target |-> target, auth |-> auth, cmd |-> "ok",
     send |-> pipe[1], recv |-> pipe[2]]

\* the outcomes of the processes perform_backup starts, stage by stage: a
\* stage that is not reached has no outcome
BackupOutcomes(started, dataset, pool) ==
    LET quiet == BackupOutcome("ok", "ok", <<>>, "ok", <<>>, "ok", <<"ok", "ok">>)
    IN  IF ~started THEN {quiet}
        ELSE {[quiet EXCEPT !.probe = p] : p \in {"fail", "error"}}
          \cup {[quiet EXCEPT !.list1 = "fail", !.list2 = "fail"]}
          \cup {BackupOutcome("ok", "ok", src, l3, tgt, auth, pipe) :
                   src \in SourceSamples(dataset), l3 \in {"ok", "fail"},
                   tgt \in TargetSamples(pool), auth \in CoreAuth,
                   pipe \in {<<"ok", "ok">>, <<"fail", "ok">>}}

PerformBackup ==
    \E hasCore \in BOOLEAN, dataset \in DatasetSamples, pool \in PoolSamples :
        \E o \in BackupOutcomes(hasCore /\ is_safe_zfs_token(dataset)
                                    /\ is_safe_zfs_token(pool), dataset, pool) :
            \E common \in BackupCommonChoices(dataset, pool, o) :
                LET r == perform_backup(now, isRoot, Session, hasCore, dataset,
                                        pool, o, common)
                IN  SetSession(r)
                    /\ Done("perform_backup",
                            [hasCore |-> hasCore, dataset |-> dataset,
                             pool |-> pool, o |-> o, common |-> common], r)

\* the listings get_latest_common_snapshot is tried on: the source holding
\* s1 < s2 < s3 and the target s1 and s3; creation times that did not parse;
\* two snapshots of the same creation time
CommonSourceSamples ==
    SourceSamples(D_tank) \cup
    {<<Snapshot(D_tank, <<"s", "1">>, TRUE, 10),
       Snapshot(D_tank, <<"s", "2">>, TRUE, 20),
       Snapshot(D_tank, <<"s", "3">>, TRUE, 30)>>,
     <<Snapshot(D_tank, <<"s", "2">>, FALSE, 0)>>,
     <<Snapshot(D_tank, <<"s", "1">>, TRUE, 10),
       Snapshot(D_tank, <<"s", "2">>, TRUE, 10)>>}

CommonTargetSamples ==
    TargetSamples(P_backup) \cup
    {<<Snapshot(P_backup, <<"s", "1">>, TRUE, 10),
       Snapshot(P_backup, <<"s", "3">>, TRUE, 30)>>,
     <<Snapshot(P_backup, <<"s", "2">>, TRUE, 20)>>}

\* ZFSBackup.get_latest_common_snapshot on its own; msg holds what it returns
GetLatestCommonSnapshot ==
    \E hasCore \in BOOLEAN, source \in CommonSourceSamples,
       target \in CommonTargetSamples :
        \E list2 \in (IF hasCore THEN {"ok", "fail"} ELSE {"ok"}),
           list3 \in (IF hasCore THEN {"ok", "fail"} ELSE {"ok"}) :
            LET src == get_snapshots(D_tank, list2, source)
                tgt == get_snapshots(P_backup, list3, target)
            IN  \E result \in (IF hasCore
                               THEN latest_common_snapshot(src.snapshots,
                                                           tgt.snapshots)
                               ELSE {<<>>}) :
                    /\ op' = OpRec("get_latest_common_snapshot",
                                   [hasCore |-> hasCore, dataset |-> D_tank,
                                    pool |-> P_backup,
                                    source |-> src.snapshots,
                                    target |-> tgt.snapshots],
                                   result # <<>>, result,
                                   IF hasCore THEN src.events \o tgt.events
                                   ELSE <<>>, <<>>)
                    /\ SessionUnchanged

\* config["datasets"]: up to two datasets
DatasetLists ==
    {<<>>, <<D_tank>>, <<D_inject>>, <<D_tank, D_home>>, <<D_tank, D_inject>>}

PrefixSamples == {W_zfs_assistant, <<"p", "$">>}

IntervalSamples == {<<"d", "a", "i", "l", "y">>}

BatchOutcomes(elevOut, n) ==
    IF elevOut = "ok" THEN [1..n -> {"ok", "fail"}] ELSE {[i \in 1..n |-> "ok"]}

CreateBatchSnapshots ==
    \E datasets \in DatasetLists, name \in {N_snap, N_quote},
       authOut \in AuthChoices(CoreAuth) :
        \E elevOut \in After(authOut, IF isRoot THEN {"ok"} ELSE CoreAuth) :
            \E outs \in BatchOutcomes(elevOut, Len(datasets)) :
                LET r == create_batch_snapshots(now, isRoot, Session, datasets,
                             name, authOut, elevOut, outs)
                IN  SetSession(r)
                    /\ Done("create_batch_snapshots",
                            [datasets |-> datasets, name |-> name], r)

CreateScheduledSnapshot ==
    \E datasets \in DatasetLists, prefix \in PrefixSamples,
       interval \in IntervalSamples, authOut \in AuthChoices(CoreAuth) :
        \E elevOut \in After(authOut, IF isRoot THEN {"ok"} ELSE CoreAuth) :
            \E outs \in BatchOutcomes(elevOut, Len(datasets)) :
                LET r == create_scheduled_snapshot(now, isRoot, Session,
                             datasets, prefix, interval, authOut, elevOut, outs)
                IN  SetSession(r)
                    /\ Done("create_scheduled_snapshot",
                            [datasets |-> datasets, prefix |-> prefix,
                             interval |-> interval], r)

\* the hook runs in its own process: its manager starts unauthenticated
CreatePrePacmanSnapshot ==
    \E datasets \in DatasetLists, prefix \in PrefixSamples,
       authOut \in (IF isRoot THEN {"ok"} ELSE CoreAuth) :
        \E elevOut \in After(authOut, IF isRoot THEN {"ok"} ELSE CoreAuth) :
            \E outs \in BatchOutcomes(elevOut, Len(datasets)) :
                LET r == create_pre_pacman_snapshot(now, isRoot, datasets, prefix,
                                                    authOut, elevOut, outs)
                IN  SessionUnchanged
                    /\ Done("create_pre_pacman_snapshot",
                            [datasets |-> datasets, prefix |-> prefix], r)

NextCore ==
    \/ CleanupSession
    \/ CreateSnapshot
    \/ DeleteSnapshot
    \/ RollbackSnapshot
    \/ CloneSnapshot
    \/ SendSnapshot
    \/ GetLatestCommonSnapshot
    \/ PerformBackup
    \/ CreateBatchSnapshots
    \/ CreateScheduledSnapshot
    \/ CreatePrePacmanSnapshot

\* the repository and the resolver on top of the broker
SpecCore == Init /\ [][NextCore]_vars

(***************************************************************************)
(* Retention on one dataset: the policy, the listing and the session are   *)
(* drawn first, then cleanup_snapshots runs on them.                       *)
(***************************************************************************)
KeepSamples == {0, 1, 2, 5}

MaxAgeSamples == {0, 30}

\* ages of the snapshots of a listing, in seconds: one day, one second short
\* of 31 days, 31 days, 40 days
AgeSamples ==
    {SecondsPerDay, 31 * SecondsPerDay - 1, 31 * SecondsPerDay, 40 * SecondsPerDay}

RetentionNow == 60 * SecondsPerDay

\* a creation time: parsed, or the raw string kept
CreationSamples ==
    {[parsed |-> TRUE, created |-> RetentionNow - a] : a \in AgeSamples}
        \cup {[parsed |-> FALSE, created |-> 0]}

ListingsOf(dataset, n) ==
    {[i \in 1..n |-> Snapshot(dataset, <<"s">> \o Decimal(i),
                              c[i].parsed, c[i].created)] :
        c \in [1..n -> CreationSamples]}

InitRetention ==
    /\ now = RetentionNow /\ ticks = 0
    /\ threads = NoThreads
    /\ isRoot \in BOOLEAN
    /\ \E valid \in BOOLEAN :
          /\ authTime = IF valid THEN RetentionNow - 1 ELSE 0
          /\ sessionActive = valid
          /\ initialAuthCompleted = valid
    /\ \E n \in 0..MaxSnaps, keepCount \in KeepSamples, maxAgeDays \in MaxAgeSamples :
          \E rows \in ListingsOf(<<"t", "k">>, n) :
              op = OpRec("retention_input",
                         [dataset |-> <<"t", "k">>, keepCount |-> keepCount,
                          maxAgeDays |-> maxAgeDays, rows |-> rows],
                         TRUE, "", <<>>, <<>>)

CleanupSnapshots ==
    /\ op.name = "retention_input"
    /\ \E listOut \in {"ok", "fail"}, authOut \in AuthChoices({"ok", "declined"}) :
          \E elevOut \in After(authOut, IF isRoot THEN {"ok"} ELSE {"ok", "declined"}) :
              \E outs \in [1..Len(op.args.rows) ->
                              IF elevOut = "ok" /\ listOut = "ok"
                              THEN {"ok", "fail"} ELSE {"ok"}] :
                  LET r == cleanup_snapshots(now, isRoot, Session, op.args.dataset,
                               op.args.keepCount, op.args.maxAgeDays, listOut,
                               op.args.rows, authOut, elevOut, outs)
                  IN  SetSession(r)
                      /\ Done("cleanup_snapshots", op.args, r)

NextRetention == CleanupSnapshots

SpecRetention == InitRetention /\ [][NextRetention]_vars

(***************************************************************************)
(* run_privileged_command called by several threads on the one global      *)
(* PrivilegeManager.  The method holds no lock: the cache test, the probe  *)
(* and the command are separate steps of each thread.                      *)
(***************************************************************************)
ThreadAt(t, pc) == threads.of[t].pc = pc

ThreadGoes(t, pc, res, authed) ==
    [threads EXCEPT !.of[t] = [pc |-> pc, res |-> res, authed |-> authed]]

\* the root test, then `if not self._is_auth_cached()`
ThreadCheck(t) ==
    /\ ThreadAt(t, "idle")
    /\ threads' = ThreadGoes(t,
                     IF isRoot \/ is_auth_cached(now, Session) THEN "exec"
                     ELSE "refresh", "none", FALSE)
    /\ UNCHANGED <<now, ticks, authTime, sessionActive, initialAuthCompleted,
                   isRoot, op>>

\* _refresh_auth_cache: subprocess.run(['pkexec', 'true']) starts
ThreadProbeStart(t) ==
    /\ ThreadAt(t, "refresh")
    /\ threads' = [ThreadGoes(t, "probing", "none", FALSE)
                      EXCEPT !.probes = threads.probes + 1]
    /\ UNCHANGED <<now, ticks, authTime, sessionActive, initialAuthCompleted,
                   isRoot, op>>

\* _refresh_auth_cache: the probe ends and the fields are written
ThreadProbeEnd(t) ==
    /\ ThreadAt(t, "probing")
    /\ \E authOut \in AuthOutcomes :
          LET r == refresh_auth_cache(now, Session, authOut) IN
          /\ authTime' = r.sess.authTime
          /\ sessionActive' = r.sess.active
          /\ initialAuthCompleted' = r.sess.initial
          /\ threads' =
                IF r.ok
                THEN [ThreadGoes(t, "exec", "none", FALSE)
                         EXCEPT !.okProbes = threads.okProbes + 1]
                ELSE ThreadGoes(t, "done", "noauth", FALSE)
    /\ UNCHANGED <<now, ticks, isRoot, op>>

\* the command runs, directly as root and behind pkexec otherwise; authed:
\* a successful authentication is on record when it starts
ThreadExec(t) ==
    /\ ThreadAt(t, "exec")
    /\ \E cmdOut \in (IF isRoot THEN CmdOutcomes ELSE ElevOutcomes) :
          threads' = ThreadGoes(t, "done", cmdOut,
                         initialAuthCompleted /\ is_auth_cached(now, Session))
    /\ UNCHANGED <<now, ticks, authTime, sessionActive, initialAuthCompleted,
                   isRoot, op>>

NextThreads ==
    \E t \in Threads :
        \/ ThreadCheck(t)
        \/ ThreadProbeStart(t)
        \/ ThreadProbeEnd(t)
        \/ ThreadExec(t)

SpecThreads == Init /\ [][NextThreads]_vars

(***************************************************************************)
(* The loops over config["datasets"]: ZFSAssistant.cleanup_snapshots       *)
(* without a dataset, and ZFSBackup.run_scheduled_backup.                  *)
(***************************************************************************)
\* the i-th configured dataset: tk/1, tk/2, ...
DatasetNo(i) == <<"t", "k", "/">> \o Decimal(i)

\* one call of the per-dataset operation inside a loop, in front of what it did
DatasetCall(kind, dataset, r) ==
    <<Event(kind, <<<<dataset>>>>, IF r.ok THEN "ok" ELSE "fail")>> \o r.events

\* the message of a loop: its fixed text and the values of the f-string,
\* ({success_count}/{len(datasets)}) and the joined failures, when it has them
Report(text, counts, failures) ==
    [text |-> text, counts |-> counts, failures |-> failures]

\* the mutant of the loop: it stops at the first dataset that failed
Aggregate_StopAtFailure(sess, datasets, results, partialText, okText) ==
    LET n == FirstNotOk([i \in 1..Len(datasets) |->
                            IF results[i].ok THEN "ok" ELSE "fail"], Len(datasets))
        m == Min(n, Len(datasets))
        success_count == Cardinality({i \in 1..m : results[i].ok})
        failures == IF n <= Len(datasets)
                    THEN <<[dataset |-> datasets[n], message |-> results[n].msg]>> ELSE <<>>
        calls == [i \in 1..m |-> DatasetCall(results[i].call, datasets[i], results[i])]
        RECURSIVE Flat(_)
        Flat(i) == IF i > m THEN <<>> ELSE calls[i] \o Flat(i + 1)
        last == IF m = 0 THEN sess ELSE results[m].sess
    IN  IF failures # <<>>
        THEN Ret(FALSE, Report(partialText, <<success_count, Len(datasets)>>, failures),
                 last, Flat(1))
        ELSE Ret(TRUE, Report(okText, <<success_count>>, <<>>), last, Flat(1))

\* success_count, failures and the result after the loop; results[i] is what
\* the operation returned for datasets[i]
Aggregate(sess, datasets, results, partialText, okText) ==
    LET n == Len(datasets)
        success_count == Cardinality({i \in 1..n : results[i].ok})
        entries == [i \in 1..n |-> [dataset |-> datasets[i], message |-> results[i].msg]]
        RECURSIVE Failures(_)
        Failures(i) ==
            IF i > n THEN <<>>
            ELSE (IF results[i].ok THEN <<>> ELSE <<entries[i]>>) \o Failures(i + 1)
        RECURSIVE Flat(_)
        Flat(i) ==
            IF i > n THEN <<>>
            ELSE DatasetCall(results[i].call, datasets[i], results[i]) \o Flat(i + 1)
        last == IF n = 0 THEN sess ELSE results[n].sess
    IN  IF Failures(1) # <<>>
        THEN Ret(FALSE, Report(partialText, <<success_count, n>>, Failures(1)),
                 last, Flat(1))
        ELSE Ret(TRUE, Report(okText, <<success_count>>, <<>>), last, Flat(1))

\* self.zfs_core.cleanup_snapshots(ds, policy) for each ds in turn; ins[i]
\* holds the listing of datasets[i] and the outcomes of its processes
RECURSIVE CleanupEach(_, _, _, _, _, _, _, _)
CleanupEach(t, root, sess, datasets, keepCount, maxAgeDays, ins, i) ==
    IF i > Len(datasets) THEN <<>>
    ELSE
        LET r == cleanup_snapshots(t, root, sess, datasets[i], keepCount,
                     maxAgeDays, ins[i].listOut, ins[i].rows, ins[i].authOut,
                     ins[i].elevOut, ins[i].outs)
            res == [ok |-> r.ok, msg |-> r.msg, sess |-> r.sess,
                    events |-> r.events, call |-> "cleanup_snapshots"]
        IN  <<res>> \o CleanupEach(t, root, r.sess, datasets, keepCount,
                                   maxAgeDays, ins, i + 1)

\* ZFSAssistant.cleanup_snapshots(dataset=None, retention_policy)
assistant_cleanup_snapshots(t, root, sess, datasets, keepCount, maxAgeDays, ins) ==
    IF datasets = <<>>
    THEN Ret(TRUE, Report("No datasets configured for cleanup", <<>>, <<>>), sess, <<>>)
    ELSE Aggregate(sess, datasets,
             CleanupEach(t, root, sess, datasets, keepCount, maxAgeDays, ins, 1),
             "Cleanup completed with partial failures",
             "Cleanup completed successfully")

\* str.strip(): leading and trailing whitespace removed
Strip(s) ==
    LET Whitespace == {" ", "\t", "\r", "\n"}
        RECURSIVE StripLeft(_)
        StripLeft(x) ==
            IF x # <<>> /\ Head(x) \in Whitespace THEN StripLeft(Tail(x)) ELSE x
        RECURSIVE StripRight(_)
        StripRight(x) ==
            IF x # <<>> /\ x[Len(x)] \in Whitespace
            THEN StripRight(SubSeq(x, 1, Len(x) - 1)) ELSE x
    IN  StripRight(StripLeft(s))

\* self.perform_backup(dataset, target_pool) for each dataset in turn
RECURSIVE BackupEach(_, _, _, _, _, _, _)
BackupEach(t, root, sess, datasets, pool, ins, i) ==
    IF i > Len(datasets) THEN <<>>
    ELSE
        LET r == perform_backup(t, root, sess, TRUE, datasets[i], pool,
                                ins[i].o, ins[i].common)
            res == [ok |-> r.ok, msg |-> r.msg, sess |-> r.sess,
                    events |-> r.events, call |-> "perform_backup"]
        IN  <<res>> \o BackupEach(t, root, r.sess, datasets, pool, ins, i + 1)

\* ZFSBackup.run_scheduled_backup; enabled and poolName are
\* config["external_backup_enabled"] and config["external_pool_name"]
run_scheduled_backup(t, root, sess, enabled, poolName, datasets, ins) ==
    LET target_pool == Strip(poolName) IN
    IF ~enabled THEN Ret(TRUE, Report("External backup is disabled", <<>>, <<>>), sess, <<>>)
    ELSE IF target_pool = <<>>
    THEN Fail(Report("External backup is enabled but no target pool is configured", <<>>, <<>>),
              sess)
    ELSE IF datasets = <<>>
    THEN Fail(Report("No datasets configured for scheduled backup", <<>>, <<>>), sess)
    ELSE Aggregate(sess, datasets,
             BackupEach(t, root, sess, datasets, target_pool, ins, 1),
             "Scheduled backup completed with partial failures",
             "Scheduled backup completed successfully")

\* what one dataset can meet in cleanup: nothing listed, a failing listing,
\* and a snapshot forty days old whose deletion works, is declined, or fails
CleanupInputs(dataset) ==
    LET old == <<Snapshot(dataset, <<"s", "1">>, TRUE,
                          RetentionNow - 40 * SecondsPerDay)>>
        In(listOut, rows, authOut, elevOut, outs) ==
            [listOut |-> listOut, rows |-> rows, authOut |-> authOut,
             elevOut |-> elevOut, outs |-> outs]
    IN  {In("ok", <<>>, "ok", "ok", <<>>),
         In("fail", old, "ok", "ok", <<"ok">>),
         In("ok", old, "ok", "ok", <<"ok">>),
         In("ok", old, "declined", "declined", <<"ok">>),
         In("ok", old, "ok", "ok", <<"fail">>)}

\* what one dataset can meet in a backup: an unreachable target, no snapshot,
\* the newest snapshot already on the target, a newer snapshot to send
BackupInputs(dataset, pool) ==
    LET quiet == BackupOutcome("ok", "ok", <<>>, "ok", <<>>, "ok", <<"ok", "ok">>)
        s1 == Snapshot(dataset, <<"s", "1">>, TRUE, 10)
        s2 == Snapshot(dataset, <<"s", "2">>, TRUE, 20)
        t1 == Snapshot(pool, <<"s", "1">>, TRUE, 10)
        outs == IF ~is_safe_zfs_token(dataset) THEN {quiet}
                ELSE {[quiet EXCEPT !.probe = "fail"], quiet,
                      BackupOutcome("ok", "ok", <<s1>>, "ok", <<t1>>, "ok", <<"ok", "ok">>),
                      BackupOutcome("ok", "ok", <<s1, s2>>, "ok", <<t1>>, "ok", <<"ok", "ok">>)}
    IN  UNION {{[o |-> o, common |-> c] : c \in BackupCommonChoices(dataset, pool, o)} :
               o \in outs}

ConfigDatasets == {[i \in 1..n |-> DatasetNo(i)] : n \in 0..MaxDatasets}

\* a configured dataset may be a string that is no valid token
BackupDatasets ==
    UNION {{ds \in [1..n -> {DatasetNo(i) : i \in 1..n} \cup {D_inject}] :
               \A i \in 1..n : ds[i] \in {DatasetNo(i), D_inject}} :
           n \in 0..MaxDatasets}

PoolNames == {<<>>, <<" ">>, P_backup}

InitMulti ==
    /\ now = RetentionNow /\ ticks = 0
    /\ threads = NoThreads
    /\ isRoot \in BOOLEAN
    /\ \E valid \in BOOLEAN :
          /\ authTime = IF valid THEN RetentionNow - 1 ELSE 0
          /\ sessionActive = valid
          /\ initialAuthCompleted = valid
    /\ op = NoOp

\* one run of a loop per behaviour, from the session drawn at the start
CleanupAllDatasets ==
    /\ op.name = "none"
    /\ \E datasets \in ConfigDatasets, keepCount \in {10} :
        \E ins \in {f \in [1..Len(datasets) -> UNION {CleanupInputs(datasets[i]) : i \in 1..Len(datasets)}] :
                       \A i \in 1..Len(datasets) : f[i] \in CleanupInputs(datasets[i])} :
            LET r == assistant_cleanup_snapshots(now, isRoot, Session, datasets,
                         keepCount, 30, ins)
            IN  SetSession(r)
                /\ Done("assistant_cleanup_snapshots",
                        [datasets |-> datasets, ins |-> ins], r)

RunScheduledBackup ==
    /\ op.name = "none"
    /\ \E enabled \in BOOLEAN, poolName \in PoolNames, datasets \in BackupDatasets :
        \E ins \in {f \in [1..Len(datasets) -> UNION {BackupInputs(datasets[i], Strip(poolName)) : i \in 1..Len(datasets)}] :
                       \A i \in 1..Len(datasets) : f[i] \in BackupInputs(datasets[i], Strip(poolName))} :
            LET r == run_scheduled_backup(now, isRoot, Session, enabled, poolName,
                         datasets, ins)
            IN  SetSession(r)
                /\ Done("run_scheduled_backup",
                        [enabled |-> enabled, poolName |-> poolName,
                         datasets |-> datasets, ins |-> ins], r)

NextMulti ==
    \/ CleanupAllDatasets
    \/ RunScheduledBackup

\* the loops over the configured datasets
SpecMulti == InitMulti /\ [][NextMulti]_vars

(***************************************************************************)
(* Waiting for an external process.  subprocess.run(timeout=n) kills the   *)
(* child and raises TimeoutExpired once n seconds have passed;             *)
(* subprocess.run without a timeout waits until the child exits.           *)
(***************************************************************************)
ProbeTimeout == 30

CommandTimeout == 60

ScriptTimeout == 300

\* the clock advances in steps of this many seconds while a call waits
WaitStep == ProbeTimeout

\* the subprocess.run calls of the broker, of the listing and of
\* perform_backup; bounded: the call is given a timeout
ExternalWaits ==
    LET Wait(call, process, bounded, timeout) ==
            [call |-> call, process |-> process, bounded |-> bounded,
             timeout |-> timeout]
    IN  {Wait("run_privileged_command", "pkexec true", TRUE, ProbeTimeout),
         Wait("run_privileged_command", "command as root", TRUE, CommandTimeout),
         Wait("run_privileged_command", "pkexec command", TRUE, CommandTimeout),
         Wait("run_batch_privileged_commands", "pkexec true", TRUE, ProbeTimeout),
         Wait("run_batch_privileged_commands", "command as root", TRUE, CommandTimeout),
         Wait("run_batch_privileged_commands", "pkexec bash script", TRUE, ScriptTimeout),
         Wait("get_snapshots", "zfs list -t snapshot", FALSE, 0),
         Wait("perform_backup", "zfs list pool", FALSE, 0),
         Wait("perform_backup", "zfs list -t snapshot", FALSE, 0)}

Waiting == op.name \in {w.call : w \in ExternalWaits} /\ op.args.stage = "waiting"

Returned == op.name \in {w.call : w \in ExternalWaits} /\ op.args.stage = "returned"

Elapsed == now - op.pre.now

\* a public call starts an external process, which exits some day or never
StartProcess ==
    /\ op.name = "none"
    /\ \E w \in ExternalWaits, exits \in BOOLEAN :
          /\ (w.process \in {"pkexec true", "pkexec command", "pkexec bash script"})
                => ~isRoot
          /\ (w.process = "command as root") => isRoot
          /\ op' = OpRec(w.call,
                         [process |-> w.process, bounded |-> w.bounded,
                          timeout |-> w.timeout, exits |-> exits,
                          stage |-> "waiting"],
                         FALSE, "", <<>>, <<>>)
    /\ SessionUnchanged

\* time passes while the caller is blocked
WaitTick ==
    /\ Waiting
    /\ ticks < MaxWaitTicks
    /\ ~(op.args.bounded /\ Elapsed >= op.args.timeout)
    /\ now' = now + WaitStep
    /\ ticks' = ticks + 1
    /\ UNCHANGED <<authTime, sessionActive, initialAuthCompleted, isRoot, op, threads>>

\* the child exits: subprocess.run returns or raises CalledProcessError
ProcessExits ==
    /\ Waiting
    /\ op.args.exits
    /\ \E out \in {"ok", "fail"} :
          op' = [op EXCEPT !.args.stage = "returned", !.ok = (out = "ok"),
                           !.msg = CommandMsg(out)]
    /\ SessionUnchanged

\* the timeout of subprocess.run passes: TimeoutExpired
TimeoutExpires ==
    /\ Waiting
    /\ op.args.bounded
    /\ Elapsed >= op.args.timeout
    /\ op' = [op EXCEPT !.args.stage = "returned", !.ok = FALSE,
                        !.msg = CommandMsg("timeout")]
    /\ SessionUnchanged

NextWait ==
    \/ StartProcess
    \/ WaitTick
    \/ ProcessExits
    \/ TimeoutExpires

\* time passes; a child that exits does so; a timeout that has passed fires
SpecWait ==
    /\ Init /\ [][NextWait]_vars
    /\ WF_vars(WaitTick)
    /\ WF_vars(ProcessExits)
    /\ WF_vars(TimeoutExpires)

(***************************************************************************)
(* The script run_batch_privileged_commands writes for `pkexec bash`, and  *)
(* what bash executes when it reads it.                                    *)
(***************************************************************************)
\* sep.join(words)
RECURSIVE Join(_, _)
Join(words, sep) ==
    IF words = <<>> THEN <<>>
    ELSE IF Len(words) = 1 THEN words[1]
    ELSE words[1] \o sep \o Join(Tail(words), sep)

\* arg.replace("'", "'\"'\"'")
RECURSIVE ReplaceQuote(_)
ReplaceQuote(arg) ==
    IF arg = <<>> THEN <<>>
    ELSE (IF Head(arg) = "'" THEN <<"'", "\"", "'", "\"", "'">> ELSE <<Head(arg)>>)
         \o ReplaceQuote(Tail(arg))

\* the element of escaped_command built from arg
EscapedArg(arg) ==
    IF AnyIn(arg, {"'"}) THEN <<"'">> \o ReplaceQuote(arg) \o <<"'">>
    ELSE <<"'">> \o arg \o <<"'">>

\* script_content = '\n'.join(script_lines)
script_content(commands) ==
    LET shebang == <<"#", "!", "/", "b", "i", "n", "/", "b", "a", "s", "h">>
        set_e == <<"s", "e", "t", " ", "-", "e", " ", " ", "#", " ", "E", "x",
                   "i", "t", " ", "o", "n", " ", "a", "n", "y", " ", "e", "r",
                   "r", "o", "r">>
        echo == <<"e", "c", "h", "o", " ", "'", "E", "x", "e", "c", "u", "t",
                  "i", "n", "g", ":", " ">>
        RECURSIVE Lines(_)
        Lines(i) ==
            IF i > Len(commands) THEN <<>>
            ELSE <<echo \o Join(commands[i], <<" ">>) \o <<"'">>,
                   Join([k \in 1..Len(commands[i]) |-> EscapedArg(commands[i][k])],
                        <<" ">>),
                   <<>>>> \o Lines(i + 1)
    IN  Join(<<shebang, set_e, <<>>>> \o Lines(1), <<"\n">>)

\* bash reading a script, one character at a time.  Single and double
\* quotes group characters into one word, blanks outside quotes separate
\* words, ';' and newline outside quotes end a command, '#' at the start of
\* a word starts a comment.  st: the quoting mode, the word and the argument
\* vector being read, and the commands executed so far.
BashChar(st, c) ==
    LET words == IF st.started THEN Append(st.argv, st.word) ELSE st.argv
        done == IF words = <<>> THEN st.cmds ELSE Append(st.cmds, words)
        more == [st EXCEPT !.word = Append(st.word, c), !.started = TRUE]
        cut == [st EXCEPT !.word = <<>>, !.started = FALSE]
    IN  CASE st.mode = "single" ->
                 IF c = "'" THEN [st EXCEPT !.mode = "none"] ELSE more
          [] st.mode = "double" ->
                 IF c = "\"" THEN [st EXCEPT !.mode = "none"] ELSE more
          [] st.mode = "comment" ->
                 IF c = "\n" THEN [cut EXCEPT !.mode = "none", !.argv = <<>>,
                                              !.cmds = done]
                 ELSE st
          [] OTHER ->
                 IF c = "'" THEN [st EXCEPT !.mode = "single", !.started = TRUE]
                 ELSE IF c = "\"" THEN [st EXCEPT !.mode = "double", !.started = TRUE]
                 ELSE IF c \in {" ", "\t"} THEN [cut EXCEPT !.argv = words]
                 ELSE IF c \in {";", "\n"} THEN [cut EXCEPT !.argv = <<>>, !.cmds = done]
                 ELSE IF c = "#" /\ ~st.started THEN [st EXCEPT !.mode = "comment"]
                 ELSE more

\* (the test of st.mode makes TLC compute st at every character rather than
\* keep a chain of pending steps; no step sets the mode to "stopped")
RECURSIVE BashFrom(_, _, _)
BashFrom(s, i, st) ==
    IF i > Len(s) \/ st.mode = "stopped" THEN st
    ELSE BashFrom(s, i + 1, BashChar(st, s[i]))

\* the simple commands bash executes, as argument vectors; error: the script
\* ends inside a quote, and the command being read is not executed
Bash(s) ==
    LET st == BashFrom(s, 1, [mode |-> "none", word |-> <<>>, started |-> FALSE,
                              argv |-> <<>>, cmds |-> <<>>])
        end == BashChar(st, "\n")
    IN  [cmds |-> IF st.mode \in {"single", "double"} THEN st.cmds ELSE end.cmds,
         error |-> st.mode \in {"single", "double"}]

\* the characters of an argument: a letter, a single quote, a blank, a ';'
ArgAlphabet == {"a", "'", " ", ";"}

ArgSamples == UNION {[1..k -> ArgAlphabet] : k \in 0..MaxArgLen}

\* a batch of two commands, the first with an argument of any characters
InitScript ==
    /\ SessionIdle
    /\ threads = NoThreads
    /\ \E arg \in ArgSamples :
          op = OpRec("script_input",
                     [commands |-> <<<<W_zfs, arg, <<"b">>>>, <<W_true>>>>],
                     TRUE, "", <<>>, <<>>)

\* the script is written and bash runs it, every command exiting with 0
RunScript ==
    /\ op.name = "script_input"
    /\ LET run == Bash(script_content(op.args.commands))
       IN  op' = OpRec("script", op.args, ~run.error, "",
                       [i \in 1..Len(run.cmds) |->
                           Event("script_cmd", <<run.cmds[i]>>, "ok")],
                       <<>>)
    /\ SessionUnchanged

NextScript == RunScript

SpecScript == InitScript /\ [][NextScript]_vars

(***************************************************************************)
(* The validator on its own: every string of at most MaxTokLen characters. *)
(***************************************************************************)
InitToken ==
    /\ SessionIdle
    /\ threads = NoThreads
    /\ \E v \in StringsUpTo(MaxTokLen) :
          op = OpRec("input", [value |-> v], FALSE, "", <<>>, <<>>)

ValidateToken ==
    /\ op.name = "input"
    /\ op' = OpRec("is_safe_zfs_token", op.args,
                   is_safe_zfs_token(op.args.value), "", <<>>, <<>>)
    /\ SessionUnchanged

NextToken == ValidateToken

SpecToken == InitToken /\ [][NextToken]_vars

\* The characters the validator must reject, and those it must accept.
MustRejectChars == {" ", "'", "\"", "BACKTICK", ";", "$", "|", "&", "<", ">", "\\"}

MustAcceptChars == AlNum \cup {".", "_", ":", "/", "+", "-"}

\* C1: is_safe_zfs_token rejects the empty string and every string holding a
\* space, quote, backtick, ; $ | & < > or backslash, and accepts every
\* non-empty string over A-Z a-z 0-9 . _ : / + -
C1_TokenValidator ==
    op.name = "is_safe_zfs_token" =>
        LET v == op.args.value IN
        /\ (v = <<>> => ~op.ok)
        /\ (AnyIn(v, MustRejectChars) => ~op.ok)
        /\ ((v # <<>> /\ AllIn(v, MustAcceptChars)) => op.ok)

C1_Witness ==
    /\ op.name = "is_safe_zfs_token"
    /\ op.ok
    /\ Len(op.args.value) >= 2
    /\ AnyIn(op.args.value, {"+"})
    /\ AnyIn(op.args.value, {"/"})

(***************************************************************************)
(* What the claims are stated in: the events of the last call.             *)
(***************************************************************************)
EventsOf(kinds) == SelectSeq(op.events, LAMBDA e : e.kind \in kinds)

\* every invocation of the elevation mechanism (pkexec)
ElevationKinds == {"probe", "pkexec", "script"}

\* every external process
ProcessKinds == {"probe", "pkexec", "script", "script_cmd", "run", "popen"}

EventIndexes(kinds) == {i \in 1..Len(op.events) : op.events[i].kind \in kinds}

SessionAsBefore ==
    /\ authTime = op.pre.authTime
    /\ sessionActive = op.pre.active

\* dataset@name with both parts valid tokens
WellFormedFullName(full) ==
    /\ HasAt(full)
    /\ is_safe_zfs_token(SplitAt(full)[1])
    /\ is_safe_zfs_token(SplitAt(full)[2])

\* the dataset, snapshot and pool tokens of a command line: its operands,
\* a full name counting for its two parts
IsOption(arg) == Len(arg) > 0 /\ arg[1] = "-"

TokensOf(cmd) ==
    UNION {IF HasAt(cmd[i]) THEN {SplitAt(cmd[i])[1], SplitAt(cmd[i])[2]}
           ELSE {cmd[i]} :
           i \in {j \in 3..Len(cmd) : ~IsOption(cmd[j])}}

CommandsOf(e) == {e.cmds[i] : i \in 1..Len(e.cmds)}

\* C2: for a full name dataset@name of valid tokens (and a valid clone target),
\* delete, rollback and clone pass validation and hand their one command,
\* naming that full name, to runPrivileged exactly once.
C2_MutatorsDelegate ==
    (/\ op.name \in {"delete_snapshot", "rollback_snapshot", "clone_snapshot"}
     /\ WellFormedFullName(op.args.full)
     /\ (op.name = "clone_snapshot" => is_safe_zfs_token(op.args.target)))
    => LET calls == EventsOf({"runPrivileged"}) IN
       /\ op.msg # "Invalid snapshot identifier"
       /\ Len(calls) = 1
       /\ \E i \in 3..Len(calls[1].cmds[1]) : calls[1].cmds[1][i] = op.args.full

\* C3: every dataset, snapshot or pool token of a command handed to
\* runPrivileged or runBatch has passed the allow-list validator.
C3_TokensValidated ==
    \A i \in EventIndexes({"runPrivileged", "runBatch"}) :
        \A cmd \in CommandsOf(op.events[i]) :
            \A tok \in TokensOf(cmd) : is_safe_zfs_token(tok)

MalformedFullName(full) == ~WellFormedFullName(full)

\* a call of the repository or the resolver one of whose tokens is unsafe or
\* empty; emptyName says whether an empty name given to create_snapshot counts
HasUnsafeToken(emptyName) ==
    \/ /\ op.name = "create_snapshot"
       /\ \/ ~is_safe_zfs_token(op.args.dataset)
          \/ op.args.name # <<>> /\ ~is_safe_zfs_token(op.args.name)
          \/ emptyName /\ op.args.name = <<>>
    \/ /\ op.name \in {"delete_snapshot", "rollback_snapshot"}
       /\ MalformedFullName(op.args.full)
    \/ /\ op.name = "clone_snapshot"
       /\ (MalformedFullName(op.args.full) \/ ~is_safe_zfs_token(op.args.target))
    \/ /\ op.name = "send_snapshot"
       /\ (MalformedFullName(op.args.full) \/ ~is_safe_zfs_token(op.args.pool))
    \/ /\ op.name = "perform_backup"
       /\ (~is_safe_zfs_token(op.args.dataset) \/ ~is_safe_zfs_token(op.args.pool))

RejectedLocally ==
    /\ ~op.ok
    /\ op.events = <<>>
    /\ SessionAsBefore

\* C4 as claimed: an unsafe or empty token makes the call fail before any
\* process, any probe and any change of the session.
C4_UnsafeOrEmptyRejected == HasUnsafeToken(TRUE) => RejectedLocally

\* C4 as amended: the same for every unsafe token and every empty dataset,
\* full name, target or pool; an empty snapshot name given to createSnapshot
\* is an omitted name, not a rejected one.
C4_UnsafeRejected == HasUnsafeToken(FALSE) => RejectedLocally

C4_Witness ==
    /\ op.name = "create_snapshot"
    /\ op.args.dataset = D_inject
    /\ ~op.pre.root /\ op.pre.authTime = 0
    /\ ~op.ok /\ op.events = <<>>

(***************************************************************************)
(* Retention.                                                              *)
(***************************************************************************)
\* the rows cleanup_snapshots got from the listing
Listed == IF op.events[1].out = "ok" THEN op.args.rows ELSE <<>>

\* a is strictly newer than b; a creation time that did not parse is older
\* than every parsed one
Newer(a, b) == a.parsed /\ (~b.parsed \/ a.created > b.created)

SameAge(a, b) == ~Newer(a, b) /\ ~Newer(b, a)

\* the zero-based rank of row i, newest first, the listing's order kept
\* among equals
RankOf(rows, i) ==
    Cardinality({j \in 1..Len(rows) :
        Newer(rows[j], rows[i]) \/ (SameAge(rows[j], rows[i]) /\ j < i)})

WholeDays(seconds) == seconds \div SecondsPerDay

TooOld(snap) ==
    snap.parsed /\ WholeDays(op.pre.now - snap.created) > op.args.maxAgeDays

ShouldBeMarked(rows, i) ==
    RankOf(rows, i) >= op.args.keepCount \/ TooOld(rows[i])

MarkedSet == {i \in 1..Len(Listed) : ShouldBeMarked(Listed, i)}

\* the full names the pass asked the broker to destroy
Destroyed ==
    {cmd[3] : cmd \in UNION {CommandsOf(op.events[i]) :
                                i \in EventIndexes({"runBatch"})}}

\* C5: the snapshot at zero-based rank i of the newest-first order is marked
\* for deletion iff i >= keepCount or its age in whole days exceeds maxAgeDays.
C5_RetentionUnion ==
    op.name = "cleanup_snapshots" =>
        \A i \in 1..Len(Listed) :
            full_name(Listed[i]) \in Destroyed <=> ShouldBeMarked(Listed, i)

\* keepCount 5, maxAgeDays 30, snapshots aged 1 and 40 days: only the second
C5_Witness ==
    /\ op.name = "cleanup_snapshots"
    /\ op.args.keepCount = 5 /\ op.args.maxAgeDays = 30
    /\ Len(Listed) = 2
    /\ Listed[1].parsed /\ op.pre.now - Listed[1].created = SecondsPerDay
    /\ Listed[2].parsed /\ op.pre.now - Listed[2].created = 40 * SecondsPerDay
    /\ Destroyed = {full_name(Listed[2])}

\* C6: a pass with a non-empty marked set calls runBatch once, with one
\* destroy per marked snapshot and nothing else; a pass with no snapshot or
\* nothing marked succeeds with no privileged command and no probe.
C6_OneBatch ==
    op.name = "cleanup_snapshots" =>
        LET calls == EventsOf({"runBatch"}) IN
        IF MarkedSet = {}
        THEN /\ op.ok
             /\ Len(op.events) = 1
             /\ op.events[1].cmds = <<ListCommand(op.args.dataset)>>
             /\ SessionAsBefore
        ELSE /\ Len(calls) = 1
             /\ Len(calls[1].cmds) = Cardinality(MarkedSet)
             /\ \A i \in MarkedSet :
                   Cardinality({k \in 1..Len(calls[1].cmds) :
                       calls[1].cmds[k] = <<W_zfs, W_destroy, full_name(Listed[i])>>}) = 1

C6_Witness ==
    /\ op.name = "cleanup_snapshots"
    /\ Cardinality(MarkedSet) = 2
    /\ Len(Listed) = 3
    /\ Len(EventsOf({"runBatch"})) = 1
    /\ ~op.pre.root

\* C7: when the deletion batch fails the pass fails, every marked snapshot is
\* logged as failed and none as deleted.
C7_FailedBatchAllFailed ==
    (/\ op.name = "cleanup_snapshots"
     /\ \E i \in EventIndexes({"runBatch"}) : op.events[i].out = "fail")
    => /\ ~op.ok
       /\ \A i \in MarkedSet :
             \E k \in 1..Len(op.log) :
                 /\ op.log[k].name = Listed[i].name
                 /\ op.log[k].operation = "delete"
                 /\ ~op.log[k].success
       /\ \A k \in 1..Len(op.log) : ~op.log[k].success

\* the batch fails at its second command, after the first was destroyed
C7_Witness ==
    /\ op.name = "cleanup_snapshots"
    /\ ~op.ok
    /\ Cardinality(MarkedSet) >= 2
    /\ \E i \in EventIndexes({"script_cmd"}) :
          /\ op.events[i].out = "fail"
          /\ op.events[i - 1].kind = "script_cmd"
          /\ op.events[i - 1].out = "ok"

(***************************************************************************)
(* The broker.                                                             *)
(***************************************************************************)
\* C8: as root, runBatch runs the commands in submission order, each after
\* the one before exited with status zero; nothing runs after the first
\* command that does not, and the batch is then reported as failed.
C8_RootBatchFailFast ==
    (op.name = "runBatch" /\ op.pre.root) =>
        LET ran == EventsOf({"run"})
            n == Len(op.args.commands)
        IN  /\ Len(ran) <= n
            /\ \A i \in 1..Len(ran) :
                  /\ ran[i].cmds = <<op.args.commands[i]>>
                  /\ (i < Len(ran) => ran[i].out = "ok")
            /\ (\E i \in 1..Len(ran) : ran[i].out # "ok") => ~op.ok
            /\ op.ok => Len(ran) = n

\* a batch of three whose second command fails: the third is not attempted
C8_Witness ==
    /\ op.name = "runBatch" /\ op.pre.root
    /\ Len(op.args.commands) = 3
    /\ Len(EventsOf({"run"})) = 2
    /\ EventsOf({"run"})[2].out = "fail"
    /\ ~op.ok

\* C9: for a caller that is not root, runBatch on a non-empty batch invokes
\* the elevation mechanism exactly once, whether the cache is valid or not.
C9_OneElevationPerBatch ==
    (op.name = "runBatch" /\ ~op.pre.root /\ op.args.commands # <<>>)
        => Len(EventsOf(ElevationKinds)) = 1

\* C10: a privileged call of a non-root caller that starts with the cache
\* expired (authenticatedAt <= now - cacheDurationSeconds - 1) makes exactly
\* one authentication probe, and the command is executed only after it.
C10_ExpiredReauthenticatesOnce ==
    (/\ op.name \in {"runPrivileged", "runBatch"}
     /\ ~op.pre.root
     /\ op.name = "runBatch" => op.args.commands # <<>>
     /\ op.pre.authTime <= op.pre.now - AuthCacheDuration - 1)
    => /\ Cardinality(EventIndexes({"probe"})) = 1
       /\ \A i \in EventIndexes({"pkexec", "script", "script_cmd"}) :
             \E j \in EventIndexes({"probe"}) :
                 j < i /\ op.events[j].out = "ok"

\* a session authenticated earlier, used again 901 seconds later
C10_Witness ==
    /\ op.name = "runPrivileged"
    /\ ~op.pre.root
    /\ op.pre.authTime > 0
    /\ op.pre.now - op.pre.authTime = AuthCacheDuration + 1
    /\ Len(op.events) = 3
    /\ op.events[2].kind = "probe" /\ op.events[2].out = "ok"
    /\ op.events[3].kind = "pkexec"

\* a privileged call of a caller that is not root (an empty batch is no call)
NonRootPrivilegedCall ==
    /\ op.name \in {"runPrivileged", "runBatch"}
    /\ ~op.pre.root
    /\ op.name = "runBatch" => op.args.commands # <<>>

\* C11: a privileged call of a non-root caller makes no authentication probe
\* when now - authenticatedAt < cacheDurationSeconds, and one probe when the
\* elapsed time is cacheDurationSeconds or more.
C11_CacheWindow ==
    NonRootPrivilegedCall =>
        IF op.pre.now - op.pre.authTime < AuthCacheDuration
        THEN EventIndexes({"probe"}) = {}
        ELSE Cardinality(EventIndexes({"probe"})) = 1

\* a call exactly cacheDurationSeconds after a successful authentication
C11_Witness ==
    /\ NonRootPrivilegedCall
    /\ op.pre.authTime > 0
    /\ op.pre.now - op.pre.authTime = AuthCacheDuration
    /\ Cardinality(EventIndexes({"probe"})) = 1

\* C12: a successful probe stamps authenticatedAt with the current time and
\* sets active; a failed one leaves active false and authenticatedAt as it
\* was, and the call fails without running its command or any of its batch.
C12_RefreshOutcome ==
    (NonRootPrivilegedCall /\ EventIndexes({"probe"}) # {}) =>
        \A i \in EventIndexes({"probe"}) :
            IF op.events[i].out = "ok"
            THEN authTime = op.pre.now /\ sessionActive
            ELSE /\ ~sessionActive
                 /\ authTime = op.pre.authTime
                 /\ ~op.ok
                 /\ EventIndexes({"pkexec", "script", "script_cmd", "run"}) = {}

\* a session that was active and has expired; the user then declines
C12_Witness ==
    /\ op.name = "runBatch"
    /\ ~op.pre.root
    /\ op.pre.active /\ op.pre.authTime > 0
    /\ \E i \in EventIndexes({"probe"}) : op.events[i].out = "declined"
    /\ ~sessionActive
    /\ ~op.ok

\* the messages of a generic failure of the requested command or batch
GenericFailureMsgs == {CommandMsg("fail"), BatchMsg("fail")}

\* C13: when the elevation mechanism fails because the user declined, at the
\* probe or at the elevated run of the command or script, the result differs
\* from the result of a non-zero exit of the requested command.
C13_DeclineDistinct ==
    (/\ op.name \in {"runPrivileged", "runBatch"}
     /\ \E i \in EventIndexes(ElevationKinds) : op.events[i].out = "declined")
    => (~op.ok /\ op.msg \notin GenericFailureMsgs)

\* C14: as root, runPrivileged and runBatch never invoke the elevation
\* mechanism, make no probe and leave authenticatedAt and active unchanged.
C14_RootRunsDirectly ==
    (op.name \in {"runPrivileged", "runBatch"} /\ op.pre.root) =>
        /\ EventIndexes(ElevationKinds) = {}
        /\ \A i \in EventIndexes(ProcessKinds) : op.events[i].kind = "run"
        /\ SessionAsBefore

\* root runs a batch of two commands with the cache expired
C14_Witness ==
    /\ op.name = "runBatch" /\ op.pre.root
    /\ op.pre.now - op.pre.authTime >= AuthCacheDuration
    /\ Len(EventsOf({"run"})) = 2
    /\ op.ok

(***************************************************************************)
(* Concurrent callers.                                                     *)
(***************************************************************************)
\* C15: with several threads calling while the cache is expired, the cache
\* test and the refresh are one critical section: no two threads are between
\* the test and the end of the probe at once, at most one probe is made in
\* total, and a thread that is not root runs its command only with a
\* successful authentication on record.
C15_AtomicCheckThenRefresh ==
    /\ \A t1, t2 \in Threads :
          (t1 # t2 /\ threads.of[t1].pc \in {"refresh", "probing"})
              => threads.of[t2].pc \notin {"refresh", "probing"}
    /\ threads.probes <= 1
    /\ \A t \in Threads :
          (~isRoot /\ threads.of[t].res \in ElevOutcomes) => threads.of[t].authed

(***************************************************************************)
(* The replication resolver.                                               *)
(***************************************************************************)
\* the names the two listings share
CommonNames(source, target) == Names(source) \cap Names(target)

\* row i of the source is a latest common snapshot: no common snapshot of the
\* source is newer
LatestCommon(source, target, i) ==
    /\ source[i].name \in CommonNames(source, target)
    /\ \A j \in 1..Len(source) :
          source[j].name \in CommonNames(source, target)
              => ~Newer(source[j], source[i])

\* C16: latestCommonSnapshot returns the source-side full name of the common
\* snapshot (by bare name) that is the latest by its source creation time,
\* and nothing when the two listings share no name.
C16_LatestCommon ==
    (op.name = "get_latest_common_snapshot" /\ op.args.hasCore) =>
        LET source == op.args.source
            target == op.args.target
        IN  IF CommonNames(source, target) = {}
            THEN op.msg = <<>>
            ELSE \E i \in 1..Len(source) :
                    /\ LatestCommon(source, target, i)
                    /\ op.msg = source[i].dataset \o At \o source[i].name

\* a perform_backup that passed validation, found the target pool and got a
\* non-empty listing of the source
BackupReachedSource ==
    /\ op.name = "perform_backup"
    /\ op.args.hasCore
    /\ is_safe_zfs_token(op.args.dataset) /\ is_safe_zfs_token(op.args.pool)
    /\ op.args.o.probe = "ok"
    /\ op.args.o.list1 = "ok" /\ op.args.o.source # <<>>

\* the full name of the newest snapshot of the source listing: rank 0 of the
\* newest-first order
IsNewestOfSource(full) ==
    \E i \in 1..Len(op.args.o.source) :
        /\ RankOf(op.args.o.source, i) = 0
        /\ full = op.args.dataset \o At \o op.args.o.source[i].name

ExpectedSend(full) ==
    IF op.args.common # <<>>
    THEN <<W_zfs, W_send, Opt_i, op.args.common, full>>
    ELSE <<W_zfs, W_send, full>>

\* C18: with valid tokens, a reachable target and a non-empty source listing,
\* performBackup whose newest snapshot is not the common one goes on to the
\* elevation check and, once that succeeded, starts the send (incremental
\* from the common snapshot, full when there is none) and the receive.
C18_SendsNewest ==
    (BackupReachedSource /\ ~IsNewestOfSource(op.args.common)) =>
        /\ EventIndexes({"runPrivileged"}) # {}
        /\ (\A i \in EventIndexes({"runPrivileged"}) : op.events[i].out = "ok")
              => \E i, j \in EventIndexes({"popen"}) :
                    /\ IsNewestOfSource(op.events[i].cmds[1][Len(op.events[i].cmds[1])])
                    /\ op.events[i].cmds[1] =
                          ExpectedSend(op.events[i].cmds[1][Len(op.events[i].cmds[1])])
                    /\ op.events[j].cmds[1] = <<W_zfs, W_receive, Opt_F, op.args.pool>>

\* C19: in performBackup a send or receive starts only after the tokens were
\* validated, the target-pool probe succeeded, the source listing was not
\* empty and the identity check succeeded, in this order; an unreachable
\* target ends the call after the probe alone; a failed identity check starts
\* no transfer.
C19_BackupOrder ==
    op.name = "perform_backup" =>
        /\ \A k \in EventIndexes({"popen"}) :
              /\ BackupReachedSource
              /\ op.events[1].kind = "run" /\ op.events[1].out = "ok"
              /\ op.events[2].cmds = <<ListCommand(op.args.dataset)>>
              /\ \E a \in EventIndexes({"runPrivileged"}) :
                    2 < a /\ a < k /\ op.events[a].out = "ok"
        /\ (op.events # <<>> /\ op.events[1].out # "ok") =>
              /\ Len(op.events) = 1
              /\ op.events[1].cmds = <<ListCommand(op.args.pool)>>
              /\ ~op.ok
        /\ (\E a \in EventIndexes({"runPrivileged"}) : op.events[a].out # "ok")
              => EventIndexes({"popen"}) = {}

\* the target pool is not reachable: the probe is the only process
C19_Witness ==
    /\ op.name = "perform_backup"
    /\ op.args.hasCore
    /\ Len(op.events) = 1
    /\ op.events[1].cmds = <<ListCommand(op.args.pool)>>
    /\ op.events[1].out = "fail"
    /\ ~op.ok

\* the per-dataset calls of a loop over the configured datasets
DatasetCalls == EventsOf({"cleanup_snapshots", "perform_backup"})

IsDatasetLoop == op.name \in {"assistant_cleanup_snapshots", "run_scheduled_backup"}

\* the loop is entered: a dataset is configured and, for the backup, the
\* external backup is enabled and names a target pool
LoopReached ==
    /\ op.args.datasets # <<>>
    /\ op.name = "run_scheduled_backup" =>
          op.args.enabled /\ Strip(op.args.poolName) # <<>>

\* the j-th failed dataset of the configuration, in configuration order
FailedIndexes(calls) == {i \in 1..Len(calls) : calls[i].out # "ok"}

NthFailed(calls, j) ==
    CHOOSE i \in FailedIndexes(calls) :
        Cardinality({k \in FailedIndexes(calls) : k < i}) = j - 1

AggregateHolds ==
    LET calls == DatasetCalls
        n == Len(op.args.datasets)
        failed == FailedIndexes(calls)
    IN  /\ Len(calls) = n
        /\ \A i \in 1..n : calls[i].cmds = <<<<op.args.datasets[i]>>>>
        /\ op.ok <=> failed = {}
        /\ ~op.ok =>
              /\ op.msg.counts = <<n - Cardinality(failed), n>>
              /\ Len(op.msg.failures) = Cardinality(failed)
              /\ \A j \in 1..Len(op.msg.failures) :
                    op.msg.failures[j].dataset = op.args.datasets[NthFailed(calls, j)]
              /\ op.msg.counts[1] + Len(op.msg.failures) = op.msg.counts[2]

\* C21: once the loop over the configured datasets is entered (a dataset is
\* configured; for the scheduled backup, it is enabled and has a target pool),
\* cross-dataset retention and scheduled backup call the per-dataset operation
\* once per dataset, in configuration order, whether or not an earlier one
\* failed; the result is success exactly when every dataset succeeded, and a
\* failure reports successCount/total and one entry per failed dataset, with
\* successCount + entries = total.
C21_Aggregate == (IsDatasetLoop /\ LoopReached) => AggregateHolds

\* C21 as stated, for every configuration
C21_AggregateAlways == IsDatasetLoop => AggregateHolds

\* three datasets: the first fails, the second succeeds, the third fails
C21_Witness ==
    /\ op.name = "assistant_cleanup_snapshots"
    /\ Len(op.args.datasets) = 3
    /\ Len(DatasetCalls) = 3
    /\ DatasetCalls[1].out = "fail"
    /\ DatasetCalls[2].out = "ok"
    /\ DatasetCalls[3].out = "fail"
    /\ ~op.ok
    /\ op.msg.counts = <<1, 3>>
    /\ Len(op.msg.failures) = 2

\* a `zfs snapshot dataset@...` was started, directly or inside the script
CreateAttempted(dataset) ==
    \E i \in EventIndexes({"run", "script_cmd"}) :
        \E cmd \in CommandsOf(op.events[i]) :
            /\ Len(cmd) = 3 /\ cmd[2] = W_snapshot
            /\ HasAt(cmd[3]) /\ SplitAt(cmd[3])[1] = dataset

\* the elevation mechanism refused neither the probe nor the script
ElevationGranted ==
    \A i \in EventIndexes({"probe", "script"}) :
        op.events[i].out \notin {"declined", "timeout", "error"}

\* C22: in scheduled snapshot creation over the configured datasets, a
\* failure for one dataset (an invalid token, a failing create command) does
\* not keep the snapshot of the other, valid datasets from being attempted.
C22_ContinuesPastFailure ==
    (/\ op.name = "create_scheduled_snapshot"
     /\ is_safe_snapshot_prefix(op.args.prefix)
     /\ ElevationGranted)
    => \A i \in 1..Len(op.args.datasets) :
          is_safe_zfs_token(op.args.datasets[i])
              => CreateAttempted(op.args.datasets[i])

\* C23: a public call that waits for an external process returns to its
\* caller, even when the process never exits.
C23_EveryCallReturns == Waiting ~> Returned

\* what the script is to execute: the stop-on-first-error directive, then for
\* each submitted command an echo of one argument and the command itself
ScriptExecutesAsSubmitted ==
    LET ran == [i \in 1..Len(op.events) |-> op.events[i].cmds[1]]
        n == Len(op.args.commands)
    IN  /\ op.ok
        /\ Len(ran) = 1 + 2 * n
        /\ ran[1] = <<<<"s", "e", "t">>, <<"-", "e">>>>
        /\ \A i \in 1..n :
              /\ Len(ran[2 * i]) = 2
              /\ ran[2 * i][1] = <<"e", "c", "h", "o">>
              /\ ran[2 * i + 1] = op.args.commands[i]

\* C24: for any argument vector, arguments holding a single quote or a blank
\* included, the generated script executes exactly the submitted commands
\* with exactly the submitted arguments, after the stop-on-first-error
\* directive, and nothing else.
C24_ScriptQuoting == op.name = "script" => ScriptExecutesAsSubmitted

\* a call of the broker that went past the root test and had commands to run
BrokerCallNotRoot ==
    /\ op.name \in {"runPrivileged", "runBatch"}
    /\ ~op.pre.root
    /\ op.events # <<>>

\* C26: after cleanup_session the session is invalid whatever time has passed
\* since the last authentication: is_authenticated is false, the remaining
\* session time is 0 and the cache is not valid; and the privileged call of a
\* caller that is not root which finds the session inactive (as it is from
\* cleanup_session until the next successful probe) makes the authentication
\* probe before it executes anything.
C26_CleanupInvalidates ==
    /\ op.name = "cleanup_session" =>
          /\ ~is_authenticated(now, Session)
          /\ get_session_remaining_time(now, Session) = 0
          /\ ~is_auth_cached(now, Session)
    /\ (BrokerCallNotRoot /\ ~op.pre.active) =>
          /\ Len(op.events) >= 2 /\ op.events[2].kind = "probe"
          /\ \A i \in EventIndexes({"pkexec", "script"}) : i > 2

\* a session was authenticated and cleaned up less than the cache duration
\* later: the next call probes, the probe is declined and nothing is executed
C26_Witness ==
    /\ BrokerCallNotRoot
    /\ initialAuthCompleted
    /\ op.pre.authTime = 0 /\ ~op.pre.active
    /\ op.pre.now - StartTime < AuthCacheDuration
    /\ op.events[2].kind = "probe" /\ op.events[2].out = "declined"
    /\ EventIndexes({"pkexec", "script"}) = {}
    /\ ~op.ok

\* the listed snapshots in the order the pass asked for their destruction
DestroyOrder ==
    LET calls == EventsOf({"runBatch"})
        cmds == IF calls = <<>> THEN <<>> ELSE calls[1].cmds
    IN  [k \in 1..Len(cmds) |->
            Listed[CHOOSE i \in 1..Len(Listed) : full_name(Listed[i]) = cmds[k][3]]]

\* the rank of row i, whose creation time did not parse: behind every parsed
\* row and behind the unparsed rows listed before it
UnparsedRank(i) ==
    Cardinality({j \in 1..Len(Listed) : Listed[j].parsed})
        + Cardinality({j \in 1..(i - 1) : ~Listed[j].parsed})

\* C27: retention ranks the snapshots newest first, a snapshot whose creation
\* time did not parse behind every snapshot with a parsed time; such a
\* snapshot is marked exactly when its rank is at or beyond keepCount,
\* whatever maxAgeDays is.
C27_UnparsedRankLast ==
    op.name = "cleanup_snapshots" =>
        /\ \A k, l \in 1..Len(DestroyOrder) :
              k < l =>
                 /\ DestroyOrder[l].parsed => DestroyOrder[k].parsed
                 /\ (DestroyOrder[k].parsed /\ DestroyOrder[l].parsed)
                       => DestroyOrder[k].created >= DestroyOrder[l].created
        /\ \A i \in 1..Len(Listed) :
              ~Listed[i].parsed =>
                  (full_name(Listed[i]) \in Destroyed
                      <=> UnparsedRank(i) >= op.args.keepCount)

\* an unparsed snapshot listed first and kept at rank 1 although maxAgeDays
\* is 0, behind one parsed snapshot, which is too old and destroyed
C27_Witness ==
    /\ op.name = "cleanup_snapshots"
    /\ Len(Listed) = 2
    /\ ~Listed[1].parsed /\ Listed[2].parsed
    /\ op.args.keepCount = 2 /\ op.args.maxAgeDays = 0
    /\ Destroyed = {full_name(Listed[2])}

\* C28: in every state the single-threaded broker reaches by runPrivileged,
\* runBatch, cleanup_session and the passing of time, a valid cache implies
\* an active session, so that is_authenticated equals the cache test.
C28_CachedImpliesActive ==
    /\ is_auth_cached(now, Session) => sessionActive
    /\ is_authenticated(now, Session) <=> is_auth_cached(now, Session)

\* one second before the cache of a successful authentication expires
C28_Witness ==
    /\ is_auth_cached(now, Session)
    /\ sessionActive
    /\ now - authTime = AuthCacheDuration - 1
    /\ op.name = "tick"

\* C29: authenticatedAt and active change only in the authentication probe
\* and in cleanup_session: a call of the broker that makes no probe (the
\* caller is root, or the cache is still valid) leaves both as they were,
\* whether its command or batch succeeds, fails or times out, and so does the
\* passing of time.
C29_SessionFrame ==
    (op.name \in {"runPrivileged", "runBatch", "tick"}
        /\ EventIndexes({"probe"}) = {})
    => SessionAsBefore

\* a command that times out one second before the cache expires
C29_Witness ==
    /\ op.name = "runPrivileged"
    /\ ~op.pre.root /\ op.pre.active
    /\ op.pre.now - op.pre.authTime = AuthCacheDuration - 1
    /\ \E i \in EventIndexes({"pkexec"}) : op.events[i].out = "timeout"
    /\ SessionAsBefore

\* the two listings share a name, and every name they share has a source
\* creation time that did not parse
OnlyUnparsedInCommon(source, target) ==
    /\ CommonNames(source, target) # {}
    /\ \A i \in 1..Len(source) :
          source[i].name \in CommonNames(source, target) => ~source[i].parsed

\* the listings perform_backup hands to get_latest_common_snapshot
BackupSource == get_snapshots(op.args.dataset, op.args.o.list2, op.args.o.source).snapshots

BackupTarget == get_snapshots(op.args.pool, op.args.o.list3, op.args.o.target).snapshots

\* a command of the call that names an incremental base
IncrementalIndexes ==
    {i \in 1..Len(op.events) :
        \E c \in 1..Len(op.events[i].cmds) :
            \E w \in 1..Len(op.events[i].cmds[c]) :
                op.events[i].cmds[c][w] = Opt_i}

=============================================================================
